---- MODULE Spec2Model ----
(***************************************************************************)
(* The session-scoped log store of the watch keyboard: SQLiteLogger        *)
(* (components/logger/Logger.ts) and the registry SQLiteLoggerService      *)
(* (components/logger/LoggerService.ts).                                   *)
(*                                                                         *)
(* JavaScript runs one callback at a time; an async method runs without    *)
(* interruption from one await to the next.  Every action below is one     *)
(* such run: the call of a method up to its first await, or the completion *)
(* of the awaited I/O together with the code that follows it up to the     *)
(* next await.  Calls in flight are the entries of tasks.                  *)
(***************************************************************************)
EXTENDS Naturals, Sequences, FiniteSets, TLC

\* Bounds of the model.
MaxTasks == 2         \* calls in flight at once
MaxCalls == 3         \* calls made in a run of Spec
MaxHandleCalls == 5   \* calls made in a run of SpecHandle
MaxRemovalCalls == 4  \* calls made in a run of SpecRemoval
MaxStoreCalls == 4    \* calls made in a run of SpecStore
MaxExportCalls == 4   \* calls made in a run of SpecExport
MaxOpenCalls == 3     \* calls made in a run of SpecOpen
MaxAppCalls == 7      \* calls made in a run of SpecApp
MaxMessage == 2       \* characters typed on the keyboard
MaxKeyboardCalls == 7 \* calls made by the time the keyboard stops taking keys
MaxExampleCalls == 8  \* the same, in the scenario of two keys
MaxClock == 1         \* milliseconds that pass
MaxFaults == 2        \* failures of the environment

VARIABLES
    handles,        \* every SQLiteLogger object ever constructed, by identity; lost and
                    \* removedBy record what happened to it: it cleared itself after a
                    \* failure, and which operation took it out of the registry
    conns,          \* every connection openDatabaseAsync returned to a logger: TRUE while open
    loggers,        \* SQLiteLoggerService.loggers: key -> logger
    currentLogger,  \* SQLiteLoggerService.currentLogger (0: null)
    tableExists,    \* the store file holds the table logs
    rows,           \* the rows of logs, in insertion order
    nextId,         \* the next AUTOINCREMENT id
    clock,          \* the wall clock, in milliseconds
    storeAvailable, \* whether openDatabaseAsync succeeds at this moment
    tasks,          \* the calls in flight
    calls,          \* how many calls have been made so far
    faults,         \* how often the environment has failed so far
    ui,             \* what the screens hold: the route shown, the session prompt, the
                    \* keyboard screen's loggerRef, currentView and message
    scratch         \* the export directory: whether the copy of the store file is
                    \* there, the paths handed to the share sheet, and the cleanup
                    \* timers pending, each with the outcome of the export that set it,
                    \* and what the last cleanup wrote to the console

vars == <<handles, conns, loggers, currentLogger, tableExists, rows, nextId,
          clock, storeAvailable, tasks, calls, faults, ui, scratch>>

----------------------------------------------------------------------------
\* Inputs.

\* Session identifiers the callers pass; two of them contain '-'.
Sessions == { <<"a", "c">>, <<"a-b", "c">>, <<"a", "b-c">> }

\* LogEntryData objects: sequences of <<key, value>> pairs.
EmptyData == <<>>
TapData == << <<"action", "tap">> >>

\* (message, data) pairs passed to log; data defaults to {}.
LogInputs == { <<"session_start", EmptyData>>, <<"tap", TapData>> }

Limits == {1, MaxHandleCalls}

TaskIds == 1..MaxTasks

----------------------------------------------------------------------------
\* Pure helpers.

Quote(str) == "\"" \o str \o "\""

RECURSIVE StringifyPairs(_)
StringifyPairs(d) ==
    IF d = <<>> THEN ""
    ELSE Quote(d[1][1]) \o ":" \o Quote(d[1][2])
         \o (IF Len(d) > 1 THEN "," ELSE "") \o StringifyPairs(Tail(d))

\* JSON.stringify of a LogEntryData object whose values are strings.
Stringify(d) == "{" \o StringifyPairs(d) \o "}"

\* The registry key of a session.
Key(userId, sessionCode) == userId \o "-" \o sessionCode

EmptyMap == [k \in {} |-> 0]

MapSet(m, k, v) == [x \in DOMAIN m \cup {k} |-> IF x = k THEN v ELSE m[x]]

MapDelete(m, k) == [x \in DOMAIN m \ {k} |-> m[x]]

\* A registry in which no key is ever found: every createLogger call would
\* construct a logger.
HasLoggerNever(key) == FALSE

\* this.loggers.has(key)
HasLogger(key) == key \in DOMAIN loggers

\* SQLiteLogger.isActive
isActive(h) == handles[h].isInitialized

\* A connection that is open.
IsOpen(c) == c # 0 /\ conns[c]

IdleTask ==
    [op |-> "idle", pc |-> "idle", h |-> 0, c |-> 0, userId |-> "", sessionCode |-> "",
     message |-> "", data |-> "", timestamp |-> 0, limit |-> 0, fresh |-> FALSE,
     ret |-> 0, entries |-> <<>>, ok |-> FALSE, outcome |-> "", reopens |-> 0,
     pending |-> {}, caller |-> ""]

IsIdle(t) == tasks[t].op = "idle"

\* The slot a new call takes.
FreeSlot == CHOOSE t \in TaskIds : IsIdle(t) /\ \A t2 \in TaskIds : t2 < t => ~IsIdle(t2)

\* No finished call is waiting to hand its result to its caller: the caller's
\* continuation runs as soon as the call settles, before any other callback.
NoneDone == \A t \in TaskIds : tasks[t].pc # "done"

CanCall == NoneDone /\ \E t \in TaskIds : IsIdle(t)

\* Task t is suspended at the await named pc and its I/O has settled.
At(t, pc) == NoneDone /\ tasks[t].pc = pc

----------------------------------------------------------------------------
\* The screens as the application starts: the settings screen is shown, the
\* session prompt is hidden and empty, no keyboard screen is mounted.
HomeScreen ==
    [route |-> "/", showSessionPrompt |-> FALSE, error |-> "", mounted |-> FALSE,
     loggerRef |-> 0, currentView |-> "incoming_message", message |-> "",
     dynamicHitboxEnabled |-> TRUE, hitboxAffected |-> FALSE,
     gridWidth |-> 0, gridHeight |-> 0, keyPositions |-> <<>>,
     lastLetterPressed |-> "",
     touch |-> [locationX |-> 0, locationY |-> 0, stamp |-> 0],
     remembered |-> <<>>, layout |-> <<>>]

\* A row an earlier run of the application left in the store file.
OldRow ==
    [id |-> 1, timestamp |-> 0, sessionCode |-> "c", userId |-> "a",
     message |-> "session_start", data |-> "{}"]

\* The service singleton is constructed with an empty registry; the store file
\* is either fresh or holds the table and a row of an earlier run.
Init ==
    /\ handles = <<>>
    /\ conns = <<>>
    /\ loggers = EmptyMap
    /\ currentLogger = 0
    /\ \/ /\ tableExists = FALSE
          /\ rows = <<>>
          /\ nextId = 1
       \/ /\ tableExists = TRUE
          /\ rows = <<OldRow>>
          /\ nextId = 2
    /\ clock = 0
    /\ storeAvailable = TRUE
    /\ tasks = [t \in TaskIds |-> IdleTask]
    /\ calls = 0
    /\ faults = 0
    /\ ui = HomeScreen
    /\ scratch = [copy |-> FALSE, shared |-> {}, timers |-> <<>>,
                  cleaned |-> [after |-> "", failed |-> FALSE]]

----------------------------------------------------------------------------
\* SQLiteLoggerService.createLogger, up to its first await, as call t of caller.
CreateLoggerStart(t, userId, sessionCode, caller) ==
    LET key == Key(userId, sessionCode)
        call == [IdleTask EXCEPT !.op = "createLogger", !.userId = userId,
                                 !.sessionCode = sessionCode, !.caller = caller]
    IN  /\ IF HasLogger(key)
           THEN LET h == loggers[key]
                IN  /\ currentLogger' = h
                    /\ IF ~isActive(h)
                       THEN tasks' = [tasks EXCEPT ![t] =
                                   [call EXCEPT !.h = h, !.pc = "init_open", !.reopens = 1]]
                       ELSE tasks' = [tasks EXCEPT ![t] =
                                   [call EXCEPT !.h = h, !.pc = "done", !.ret = h]]
                    /\ UNCHANGED handles
           ELSE /\ handles' = Append(handles,
                       [userId |-> userId, sessionCode |-> sessionCode, db |-> 0,
                        isInitialized |-> FALSE, lost |-> FALSE, removedBy |-> ""])
                /\ tasks' = [tasks EXCEPT ![t] =
                       [call EXCEPT !.h = Len(handles) + 1, !.fresh = TRUE,
                                    !.pc = "init_open"]]
                /\ UNCHANGED currentLogger

\* A createLogger call made on the service directly.
CreateLoggerCall(userId, sessionCode) ==
    /\ CanCall
    /\ CreateLoggerStart(FreeSlot, userId, sessionCode, "")
    /\ calls' = calls + 1
    /\ UNCHANGED <<conns, loggers, tableExists, rows, nextId, clock, ui, scratch,
                   storeAvailable, faults>>

\* The code that follows `await initialize()` in the caller, run once
\* initialize has settled with the loggers as hs; initialize itself never throws.
AfterInit(t, hs) ==
    LET tk == tasks[t]
        h == tk.h
    IN  /\ handles' = hs
        /\ IF tk.op = "createLogger" /\ tk.fresh
           THEN IF hs[h].isInitialized
                THEN /\ loggers' = MapSet(loggers, Key(tk.userId, tk.sessionCode), h)
                     /\ currentLogger' = h
                     /\ tasks' = [tasks EXCEPT ![t].pc = "done", ![t].ret = h]
                ELSE /\ tasks' = [tasks EXCEPT ![t].pc = "done", ![t].ret = 0]
                     /\ UNCHANGED <<loggers, currentLogger>>
           ELSE IF tk.op = "createLogger"
           THEN /\ tasks' = [tasks EXCEPT ![t].pc = "done", ![t].ret = currentLogger]
                /\ UNCHANGED <<loggers, currentLogger>>
           ELSE \* log or getLogs: the reconnect branch
                /\ IF ~hs[h].isInitialized \/ hs[h].db = 0
                   THEN tasks' = [tasks EXCEPT ![t].pc = "done",
                                               ![t].outcome = "reconnect_failed"]
                   ELSE tasks' = [tasks EXCEPT
                            ![t].pc = IF tk.op = "log" THEN "log_insert" ELSE "getlogs_select",
                            ![t].c = hs[h].db,
                            ![t].timestamp = clock]
                /\ UNCHANGED <<loggers, currentLogger>>

\* SQLiteLogger.initialize: openDatabaseAsync settles.  On success this.db is
\* the new connection and the CREATE TABLE statement is issued on it; on
\* failure the catch block clears isInitialized and leaves this.db as it was.
InitOpen(t) ==
    LET h == tasks[t].h
    IN  /\ At(t, "init_open")
        /\ IF storeAvailable
           THEN /\ conns' = Append(conns, TRUE)
                /\ handles' = [handles EXCEPT ![h].db = Len(conns) + 1]
                /\ tasks' = [tasks EXCEPT ![t].pc = "init_exec", ![t].c = Len(conns) + 1]
                /\ UNCHANGED <<loggers, currentLogger>>
           ELSE /\ AfterInit(t, [handles EXCEPT ![h].isInitialized = FALSE,
                                                ![h].lost = handles[h].lost \/ tasks[t].op # "createLogger"])
                /\ UNCHANGED conns
        /\ UNCHANGED <<tableExists, rows, nextId, clock, ui, scratch, storeAvailable, calls, faults>>

\* SQLiteLogger.initialize: execAsync(CREATE TABLE IF NOT EXISTS) settles.
InitExec(t) ==
    LET h == tasks[t].h
    IN  /\ At(t, "init_exec")
        /\ IF IsOpen(tasks[t].c)
           THEN /\ tableExists' = TRUE
                /\ AfterInit(t, [handles EXCEPT ![h].isInitialized = TRUE, ![h].lost = FALSE])
           ELSE /\ AfterInit(t, [handles EXCEPT ![h].isInitialized = FALSE,
                                                ![h].lost = handles[h].lost \/ tasks[t].op # "createLogger"])
                /\ UNCHANGED tableExists
        /\ UNCHANGED <<conns, rows, nextId, clock, ui, scratch, storeAvailable, calls, faults>>

----------------------------------------------------------------------------
\* A catch block that drops the connection but leaves isInitialized set.
MarkClosedKeepsInitialized(h) == [handles EXCEPT ![h].db = 0, ![h].lost = TRUE]

\* The catch block of log and getLogs on a "closed resource" error.
MarkClosed(h) == [handles EXCEPT ![h].db = 0, ![h].isInitialized = FALSE, ![h].lost = TRUE]

\* SQLiteLogger.log, up to its first await: the call as it is suspended there,
\* or as it has returned.
LogTask(h, message, data) ==
    LET call == [IdleTask EXCEPT !.op = "log", !.h = h, !.message = message,
                                 !.data = Stringify(data)]
    IN  IF ~handles[h].isInitialized
        THEN [call EXCEPT !.pc = "done", !.outcome = "ignored"]
        ELSE IF handles[h].db = 0
        THEN [call EXCEPT !.pc = "init_open", !.reopens = 1]
        ELSE [call EXCEPT !.pc = "log_insert", !.c = handles[h].db, !.timestamp = clock]

\* A log call made on a logger directly.
LogCall(h, message, data) ==
    LET t == FreeSlot
    IN  /\ CanCall
        /\ tasks' = [tasks EXCEPT ![t] = LogTask(h, message, data)]
        /\ calls' = calls + 1
        /\ UNCHANGED <<handles, conns, loggers, currentLogger, tableExists, rows, nextId,
                       clock, ui, scratch, storeAvailable, faults>>

\* The row an INSERT of task tk writes.
NewRow(tk) ==
    [id |-> nextId, timestamp |-> tk.timestamp, sessionCode |-> handles[tk.h].sessionCode,
     userId |-> handles[tk.h].userId, message |-> tk.message, data |-> tk.data]

\* What runAsync(INSERT) on connection c can settle with: "" when the row is
\* written, else the message of the error thrown.
InsertOutcomes(c) ==
    IF ~IsOpen(c) THEN {"closed resource"}
    ELSE IF ~storeAvailable THEN {"disk I/O error"}
    ELSE IF ~tableExists THEN {"no such table: logs"}
    ELSE {""}

\* error.message.includes('closed resource') || includes('database is closed')
IsClosedError(msg) == msg \in {"closed resource", "database is closed"}

\* A catch block that handles the closed connection and throws every other
\* error on to the caller of log.
LogCatchRethrows(msg) == IF IsClosedError(msg) THEN "conn_closed" ELSE "raised"

\* How log ends when its INSERT throws msg: the catch block handles every error.
LogCatch(msg) == IF IsClosedError(msg) THEN "conn_closed" ELSE "write_error"

\* SQLiteLogger.log: runAsync(INSERT) settles.
LogInsert(t) ==
    LET tk == tasks[t]
    IN  /\ At(t, "log_insert")
        /\ \E err \in InsertOutcomes(tk.c) :
               IF err = ""
               THEN /\ rows' = Append(rows, NewRow(tk))
                    /\ nextId' = nextId + 1
                    /\ tasks' = [tasks EXCEPT ![t].pc = "done", ![t].outcome = "written"]
                    /\ UNCHANGED handles
               ELSE /\ handles' = IF IsClosedError(err) THEN MarkClosed(tk.h) ELSE handles
                    /\ tasks' = [tasks EXCEPT ![t].pc = "done", ![t].outcome = LogCatch(err)]
                    /\ UNCHANGED <<rows, nextId>>
        /\ UNCHANGED <<conns, loggers, currentLogger, tableExists, clock, ui, scratch, storeAvailable,
                       calls, faults>>

----------------------------------------------------------------------------
\* Queries.

RECURSIVE Perms(_)
Perms(S) ==
    IF S = {} THEN {<<>>}
    ELSE UNION {{<<x>> \o p : p \in Perms(S \ {x})} : x \in S}

Min(a, b) == IF a < b THEN a ELSE b

\* ORDER BY timestamp DESC LIMIT limit over the rows with indices I: SQL leaves
\* the order of rows with equal timestamps open, so every such order is a result.
OrderByTimestampDesc(rs, I, limit) ==
    { [i \in 1..Min(limit, Len(p)) |-> rs[p[i]]] :
        p \in { q \in Perms(I) :
                  \A i \in 1..(Len(q) - 1) : rs[q[i]].timestamp >= rs[q[i + 1]].timestamp } }

\* SELECT * FROM logs ORDER BY timestamp DESC LIMIT ?
SelectAll(rs, limit) == OrderByTimestampDesc(rs, DOMAIN rs, limit)

\* The session query without its WHERE clause.
SelectIgnoringSession(rs, userId, sessionCode, limit) == SelectAll(rs, limit)

\* SELECT * FROM logs WHERE userId = ? AND sessionCode = ? ORDER BY timestamp DESC LIMIT ?
SelectForSession(rs, userId, sessionCode, limit) ==
    OrderByTimestampDesc(rs,
        {i \in DOMAIN rs : rs[i].userId = userId /\ rs[i].sessionCode = sessionCode}, limit)

\* SQLiteLogger.getLogs, up to its first await.
GetLogsCall(h, limit) ==
    LET t == FreeSlot
        call == [IdleTask EXCEPT !.op = "getLogs", !.h = h, !.limit = limit,
                                 !.userId = handles[h].userId,
                                 !.sessionCode = handles[h].sessionCode]
    IN  /\ CanCall
        /\ IF ~handles[h].isInitialized
           THEN tasks' = [tasks EXCEPT ![t] = [call EXCEPT !.pc = "done", !.outcome = "ignored"]]
           ELSE IF handles[h].db = 0
           THEN tasks' = [tasks EXCEPT ![t] = [call EXCEPT !.pc = "init_open", !.reopens = 1]]
           ELSE tasks' = [tasks EXCEPT ![t] =
                    [call EXCEPT !.pc = "getlogs_select", !.c = handles[h].db]]
        /\ calls' = calls + 1
        /\ UNCHANGED <<handles, conns, loggers, currentLogger, tableExists, rows, nextId,
                       clock, ui, scratch, storeAvailable, faults>>

\* SQLiteLogger.getLogs: getAllAsync(SELECT) settles.
GetLogsSelect(t) ==
    LET tk == tasks[t]
    IN  /\ At(t, "getlogs_select")
        /\ IF IsOpen(tk.c) /\ tableExists
           THEN /\ \E r \in SelectAll(rows, tk.limit) :
                     tasks' = [tasks EXCEPT ![t].pc = "done", ![t].entries = r,
                                            ![t].outcome = "returned"]
                /\ UNCHANGED handles
           ELSE /\ handles' = IF IsOpen(tk.c) THEN handles ELSE MarkClosed(tk.h)
                /\ tasks' = [tasks EXCEPT ![t].pc = "done",
                        ![t].outcome = IF IsOpen(tk.c) THEN "query_error" ELSE "conn_closed"]
        /\ UNCHANGED <<conns, loggers, currentLogger, tableExists, rows, nextId, clock, ui, scratch,
                       storeAvailable, calls, faults>>

----------------------------------------------------------------------------
\* Service-level operations: each opens a connection of its own
\* (openDbConnection), uses it and closes it in its finally block.

\* SQLiteLoggerService.getLogsForSession, up to its first await.
GetLogsForSessionCall(userId, sessionCode, limit) ==
    /\ CanCall
    /\ tasks' = [tasks EXCEPT ![FreeSlot] =
           [IdleTask EXCEPT !.op = "getLogsForSession", !.pc = "svc_open", !.userId = userId,
                            !.sessionCode = sessionCode, !.limit = limit]]
    /\ calls' = calls + 1
    /\ UNCHANGED <<handles, conns, loggers, currentLogger, tableExists, rows, nextId, clock, ui, scratch,
                   storeAvailable, faults>>

\* SQLiteLoggerService.deleteLogsForSession, up to its first await.
DeleteLogsForSessionCall(userId, sessionCode) ==
    /\ CanCall
    /\ tasks' = [tasks EXCEPT ![FreeSlot] =
           [IdleTask EXCEPT !.op = "deleteLogsForSession", !.pc = "svc_open",
                            !.userId = userId, !.sessionCode = sessionCode]]
    /\ calls' = calls + 1
    /\ UNCHANGED <<handles, conns, loggers, currentLogger, tableExists, rows, nextId, clock, ui, scratch,
                   storeAvailable, faults>>

\* openDbConnection settles: null when the store cannot be opened, and then
\* the caller returns [] or false at once; otherwise the statement is issued.
SvcOpen(t) ==
    LET tk == tasks[t]
    IN  /\ At(t, "svc_open")
        /\ IF storeAvailable
           THEN tasks' = [tasks EXCEPT ![t].pc =
                    IF tk.op = "deleteLogsForSession" THEN "svc_delete" ELSE "svc_select"]
           ELSE tasks' = [tasks EXCEPT ![t].pc = "done", ![t].ok = FALSE,
                                       ![t].outcome = "open_failed"]
        /\ UNCHANGED <<handles, conns, loggers, currentLogger, tableExists, rows, nextId,
                       clock, ui, scratch, storeAvailable, calls, faults>>

\* The messages of the errors a statement of a service operation can fail with
\* when the store has become inaccessible after the connection was opened.
StatementErrors == {"disk I/O error", "Query failed"}

\* A catch block that tests for 'no such table: logs' only.
LooksLikeNoTableOnly(msg) == msg = "no such table: logs"

\* A catch block that takes no error for a missing table.
LooksLikeNoTableNever(msg) == FALSE

\* The test of the catch blocks: error.message.includes('no such table: logs')
\* || error.message.includes('Query failed').
LooksLikeNoTable(msg) == msg \in {"no such table: logs", "Query failed"}

\* The errors the statement of a service operation throws at this moment.
StatementOutcomes ==
    IF ~storeAvailable THEN StatementErrors
    ELSE IF ~tableExists THEN {"no such table: logs"}
    ELSE {""}

\* The distinct (userId, sessionCode) pairs of the rows.
DistinctSessions(rs) == { <<rs[i].userId, rs[i].sessionCode>> : i \in DOMAIN rs }

\* The pairs of all rows, one per row.
SelectSessionsOfRows(rs) ==
    { [i \in DOMAIN p |-> <<rs[p[i]].userId, rs[p[i]].sessionCode>>] : p \in Perms(DOMAIN rs) }

\* SELECT DISTINCT userId, sessionCode FROM logs: the pairs in any order.
SelectDistinct(rs) == Perms(DistinctSessions(rs))

\* SQLiteLoggerService.getAllSessions, up to its first await.
GetAllSessionsCall ==
    /\ CanCall
    /\ tasks' = [tasks EXCEPT ![FreeSlot] =
           [IdleTask EXCEPT !.op = "getAllSessions", !.pc = "svc_open"]]
    /\ calls' = calls + 1
    /\ UNCHANGED <<handles, conns, loggers, currentLogger, tableExists, rows, nextId, clock, ui, scratch,
                   storeAvailable, faults>>

\* getLogsForSession and getAllSessions: getAllAsync(SELECT) settles; every
\* error is caught and answered with [].  The finally block then closes the
\* connection.
SvcSelect(t) ==
    LET tk == tasks[t]
    IN  /\ At(t, "svc_select")
        /\ \E err \in StatementOutcomes :
             IF err = ""
             THEN \E r \in (IF tk.op = "getAllSessions" THEN SelectDistinct(rows)
                            ELSE SelectForSession(rows, tk.userId, tk.sessionCode, tk.limit)) :
                      tasks' = [tasks EXCEPT ![t].pc = "svc_close", ![t].entries = r,
                                             ![t].outcome = "returned"]
             ELSE tasks' = [tasks EXCEPT ![t].pc = "svc_close",
                       ![t].outcome = IF err = "no such table: logs" THEN "no_table"
                                      ELSE err]
        /\ UNCHANGED <<handles, conns, loggers, currentLogger, tableExists, rows, nextId,
                       clock, ui, scratch, storeAvailable, calls, faults>>

\* A DELETE without its WHERE clause.
DeleteEveryRow(rs, userId, sessionCode) == <<>>

\* DELETE FROM logs WHERE userId = ? AND sessionCode = ?
DeleteRows(rs, userId, sessionCode) ==
    SelectSeq(rs, LAMBDA r : ~(r.userId = userId /\ r.sessionCode = sessionCode))

\* deleteLogsForSession: runAsync(DELETE) settles.  An error that looks like a
\* missing table is answered with true, any other error with false; otherwise
\* the rows are gone and, when the key is registered, close() of the
\* registered logger is called and awaited.
SvcDelete(t) ==
    LET tk == tasks[t]
        key == Key(tk.userId, tk.sessionCode)
    IN  /\ At(t, "svc_delete")
        /\ \E err \in StatementOutcomes :
             IF err # ""
             THEN /\ tasks' = [tasks EXCEPT ![t].pc = "svc_close",
                          ![t].ok = LooksLikeNoTable(err),
                          ![t].outcome = IF err = "no such table: logs" THEN "no_table"
                                         ELSE err]
                  /\ UNCHANGED rows
             ELSE /\ rows' = DeleteRows(rows, tk.userId, tk.sessionCode)
                  /\ IF HasLogger(key)
                     THEN tasks' = [tasks EXCEPT ![t].pc = "del_close", ![t].h = loggers[key],
                                                 ![t].c = handles[loggers[key]].db]
                     ELSE tasks' = [tasks EXCEPT ![t].pc = "svc_close", ![t].ok = TRUE,
                                                 ![t].outcome = "deleted"]
        /\ UNCHANGED <<handles, conns, loggers, currentLogger, tableExists, nextId, clock, ui, scratch,
                       storeAvailable, calls, faults>>

\* SQLiteLoggerService.exportDatabaseFile, up to its first await.
ExportDatabaseFileCall ==
    /\ CanCall
    /\ tasks' = [tasks EXCEPT ![FreeSlot] =
           [IdleTask EXCEPT !.op = "exportDatabaseFile", !.pc = "exp_available"]]
    /\ calls' = calls + 1
    /\ UNCHANGED <<handles, conns, loggers, currentLogger, tableExists, rows, nextId, clock, ui, scratch,
                   storeAvailable, faults>>

\* exportDatabaseFile: Sharing.isAvailableAsync settles; the device may or may
\* not offer sharing.
ExpAvailable(t) ==
    /\ At(t, "exp_available")
    /\ \E available \in BOOLEAN :
           tasks' = IF available THEN [tasks EXCEPT ![t].pc = "exp_info"]
                    ELSE [tasks EXCEPT ![t].pc = "done", ![t].outcome = "sharing_unavailable"]
    /\ UNCHANGED <<handles, conns, loggers, currentLogger, tableExists, rows, nextId, clock, ui, scratch,
                   storeAvailable, calls, faults>>

\* The store file and its copy in the export directory.
SourceDbPath == "SQLite/appLogs.db"
TempDbPath == "log_exports/appLogs.db"

\* An export that sets the timer of the cleanup only after it has shared.
ExportEndsCleansAfterSharing(t, outcome) ==
    /\ tasks' = [tasks EXCEPT ![t].pc = "done", ![t].outcome = outcome]
    /\ scratch' = IF outcome = "shared"
                  THEN [scratch EXCEPT !.timers = Append(@, outcome)]
                  ELSE scratch

\* exportDatabaseFile returns from inside its try block with outcome: the
\* finally block sets the timer of the cleanup.
ExportEnds(t, outcome) ==
    /\ tasks' = [tasks EXCEPT ![t].pc = "done", ![t].outcome = outcome]
    /\ scratch' = [scratch EXCEPT !.timers = Append(@, outcome)]

\* exportDatabaseFile: getInfoAsync of the store file settles.  The file is
\* there once the store holds the table; a failure is caught and logged.
ExpInfo(t) ==
    /\ At(t, "exp_info")
    /\ IF ~storeAvailable
       THEN ExportEnds(t, "export_error")
       ELSE IF ~tableExists
       THEN ExportEnds(t, "file_missing")
       ELSE /\ tasks' = [tasks EXCEPT ![t].pc = "exp_copy"]
            /\ UNCHANGED scratch
    /\ UNCHANGED <<handles, conns, loggers, currentLogger, tableExists, rows, nextId, clock, ui,
                   storeAvailable, calls, faults>>

\* The path shareAsync is given: the copy, never the store file.
SharedPath == TempDbPath

\* exportDatabaseFile: copyAsync settles; a failure is caught and logged.  On
\* success the copy is in the export directory and shareAsync is called on it.
ExpCopy(t) ==
    /\ At(t, "exp_copy")
    /\ IF ~storeAvailable
       THEN ExportEnds(t, "export_error")
       ELSE /\ tasks' = [tasks EXCEPT ![t].pc = "exp_share"]
            /\ scratch' = [scratch EXCEPT !.copy = TRUE, !.shared = @ \cup {SharedPath}]
    /\ UNCHANGED <<handles, conns, loggers, currentLogger, tableExists, rows, nextId, clock, ui,
                   storeAvailable, calls, faults>>

\* exportDatabaseFile: shareAsync settles or throws; a failure is caught and
\* logged.
ExpShare(t) ==
    /\ At(t, "exp_share")
    /\ \E throws \in BOOLEAN :
           ExportEnds(t, IF throws THEN "export_error" ELSE "shared")
    /\ UNCHANGED <<handles, conns, loggers, currentLogger, tableExists, rows, nextId, clock, ui,
                   storeAvailable, calls, faults>>

\* The callback of the oldest cleanup timer runs: deleteAsync of the copy,
\* which does nothing when the copy is not there and whose failure is caught.
CleanupTimer ==
    /\ NoneDone
    /\ scratch.timers # <<>>
    /\ \E failed \in BOOLEAN :
           scratch' = [scratch EXCEPT !.timers = Tail(@),
                                      !.copy = IF failed THEN @ ELSE FALSE,
                                      !.cleaned = [after |-> Head(scratch.timers),
                                                   failed |-> failed]]
    /\ UNCHANGED <<handles, conns, loggers, currentLogger, tableExists, rows, nextId, clock, ui,
                   storeAvailable, tasks, calls, faults>>

\* SQLiteLogger.close after its closeAsync on connection c settled: on success
\* db and isInitialized are cleared, on a throw the catch block leaves both.
Closed(hs, h, c, throws) ==
    IF c = 0 \/ throws THEN hs
    ELSE [hs EXCEPT ![h].db = 0, ![h].isInitialized = FALSE, ![h].lost = FALSE]

\* Whether closeAsync on c may throw: never on an open connection; on one that
\* is already closed the library may throw or do nothing.
CloseOutcomes(c) == IF c = 0 \/ IsOpen(c) THEN {FALSE} ELSE {TRUE, FALSE}

CloseConn(cs, c) == IF c = 0 THEN cs ELSE [cs EXCEPT ![c] = FALSE]

\* The loggers hs after those in H were taken out of the registry by op.
Deregistered(hs, H, op) ==
    [h \in DOMAIN hs |-> IF h \in H THEN [hs[h] EXCEPT !.removedBy = op] ELSE hs[h]]

\* deleteLogsForSession: close() of the registered logger settles; the key is
\* deleted from the map and currentLogger cleared if it was that logger.
DelClose(t) ==
    LET tk == tasks[t]
        key == Key(tk.userId, tk.sessionCode)
    IN  /\ At(t, "del_close")
        /\ \E throws \in CloseOutcomes(tk.c) :
               handles' = Deregistered(Closed(handles, tk.h, tk.c, throws),
                                       IF HasLogger(key) THEN {loggers[key]} ELSE {},
                                       "deleteLogsForSession")
        /\ conns' = CloseConn(conns, tk.c)
        /\ loggers' = MapDelete(loggers, key)
        /\ currentLogger' = IF currentLogger = tk.h THEN 0 ELSE currentLogger
        /\ tasks' = [tasks EXCEPT ![t].pc = "svc_close", ![t].ok = TRUE,
                                  ![t].outcome = "deleted"]
        /\ UNCHANGED <<tableExists, rows, nextId, clock, ui, scratch, storeAvailable, calls, faults>>

\* The finally block's closeAsync of the service connection settles and the
\* call returns to its caller.
SvcClose(t) ==
    LET tk == tasks[t]
    IN  /\ At(t, "svc_close")
        /\ tasks' = [tasks EXCEPT ![t].pc = "done"]
        /\ UNCHANGED <<handles, conns, loggers, currentLogger, tableExists, rows, nextId,
                       clock, ui, scratch, storeAvailable, calls, faults>>

\* closeAllLoggers after Promise.all settled, with the loggers as hs: the map
\* and currentLogger are cleared and the call returns.
CloseAllFinish(t, call, hs) ==
    /\ handles' = Deregistered(hs, {loggers[k] : k \in DOMAIN loggers}, "closeAllLoggers")
    /\ loggers' = EmptyMap
    /\ currentLogger' = 0
    /\ tasks' = [tasks EXCEPT ![t] = [call EXCEPT !.pc = "done", !.pending = {}]]

\* SQLiteLoggerService.closeAllLoggers, up to its await: close() is called on
\* every registered logger, and each with a connection issues closeAsync on it.
\* With no closeAsync issued Promise.all settles at once.
CloseAllLoggersCall ==
    LET t == FreeSlot
        call == [IdleTask EXCEPT !.op = "closeAllLoggers", !.pc = "closeall_wait",
                    !.pending = { <<loggers[k], handles[loggers[k]].db>> : k \in
                                    { x \in DOMAIN loggers : handles[loggers[x]].db # 0 } }]
    IN  /\ CanCall
        /\ IF call.pending = {}
           THEN CloseAllFinish(t, call, handles)
           ELSE /\ tasks' = [tasks EXCEPT ![t] = call]
                /\ UNCHANGED <<handles, loggers, currentLogger>>
        /\ calls' = calls + 1
        /\ UNCHANGED <<conns, tableExists, rows, nextId, clock, ui, scratch, storeAvailable, faults>>

\* closeAllLoggers: one of the pending close() calls settles; with the last
\* one Promise.all settles and the function runs to its end.
CloseAllSettle(t) ==
    LET tk == tasks[t]
    IN  /\ At(t, "closeall_wait")
        /\ \E p \in tk.pending :
             /\ \E throws \in CloseOutcomes(p[2]) :
                    IF tk.pending = {p}
                    THEN CloseAllFinish(t, tk, Closed(handles, p[1], p[2], throws))
                    ELSE /\ handles' = Closed(handles, p[1], p[2], throws)
                         /\ tasks' = [tasks EXCEPT ![t].pending = tk.pending \ {p}]
                         /\ UNCHANGED <<loggers, currentLogger>>
             /\ conns' = CloseConn(conns, p[2])
        /\ UNCHANGED <<tableExists, rows, nextId, clock, ui, scratch, storeAvailable, calls, faults>>

----------------------------------------------------------------------------
\* The environment.

\* A millisecond passes.
Tick ==
    /\ NoneDone
    /\ clock < MaxClock
    /\ clock' = clock + 1
    /\ UNCHANGED <<handles, conns, loggers, currentLogger, tableExists, rows, nextId,
                   storeAvailable, tasks, calls, faults, ui, scratch>>

\* The platform reclaims a logger's connection: later statements on it fail
\* with "closed resource".
ConnectionLost(c) ==
    /\ NoneDone
    /\ faults < MaxFaults
    /\ conns[c]
    /\ conns' = [conns EXCEPT ![c] = FALSE]
    /\ faults' = faults + 1
    /\ UNCHANGED <<handles, loggers, currentLogger, tableExists, rows, nextId, clock, ui, scratch,
                   storeAvailable, tasks, calls>>

\* The store becomes unavailable (openDatabaseAsync fails) or available again.
StoreFails ==
    /\ NoneDone
    /\ faults < MaxFaults
    /\ storeAvailable
    /\ storeAvailable' = FALSE
    /\ faults' = faults + 1
    /\ UNCHANGED <<handles, conns, loggers, currentLogger, tableExists, rows, nextId, clock, ui, scratch,
                   tasks, calls>>

StoreRecovers ==
    /\ NoneDone
    /\ ~storeAvailable
    /\ storeAvailable' = TRUE
    /\ UNCHANGED <<handles, conns, loggers, currentLogger, tableExists, rows, nextId, clock, ui, scratch,
                   tasks, calls, faults>>

\* The caller has taken the result of a finished call.
Return(t) ==
    /\ tasks[t].pc = "done"
    /\ tasks[t].caller = ""
    /\ tasks' = [tasks EXCEPT ![t] = IdleTask]
    /\ UNCHANGED <<handles, conns, loggers, currentLogger, tableExists, rows, nextId, clock, ui, scratch,
                   storeAvailable, calls, faults>>

----------------------------------------------------------------------------
\* The screens.

\* What the user types into a field of the session prompt: a sequence of characters.
TypedUserIds == { <<>>, <<" ">>, <<"a">>, <<" ", "a">> }
TypedSessionCodes == { <<>>, <<" ">>, <<"c">> }

\* The keys tapped.
Letters == {"q"}

RECURSIVE TrimStart(_)
TrimStart(q) == IF q # <<>> /\ Head(q) = " " THEN TrimStart(Tail(q)) ELSE q

RECURSIVE TrimEnd(_)
TrimEnd(q) ==
    IF q # <<>> /\ q[Len(q)] = " " THEN TrimEnd(SubSeq(q, 1, Len(q) - 1)) ELSE q

\* String.prototype.trim
Trim(q) == TrimEnd(TrimStart(q))

\* The string a sequence of characters spells.
RECURSIVE Text(_)
Text(q) == IF q = <<>> THEN "" ELSE Head(q) \o Text(Tail(q))

\* A prompt that lets every input through.
IsBlankNever(q) == FALSE

\* !userId.trim()
IsBlank(q) == Trim(q) = <<>>

\* The core of the program that a handler of a screen leaves alone.
StoreUnchanged ==
    UNCHANGED <<conns, loggers, tableExists, rows, nextId, clock, storeAvailable, faults,
                scratch>>

\* The button "Try Keyboard Demo" of the settings screen.
ShowSessionPrompt ==
    /\ NoneDone
    /\ ui.route = "/"
    /\ ~ui.showSessionPrompt
    /\ ui' = [ui EXCEPT !.showSessionPrompt = TRUE]
    /\ UNCHANGED <<handles, currentLogger, tasks, calls>>
    /\ StoreUnchanged

\* SessionPrompt.handleSubmit with the fields as typed, and the part of
\* HomeScreen.handleSessionSubmit it runs through onSubmit: up to the await
\* of createLogger.  One submission is in flight at a time.
HandleSubmit(userId, sessionCode) ==
    /\ NoneDone
    /\ ui.route = "/"
    /\ ui.showSessionPrompt
    /\ \A t \in TaskIds : tasks[t].caller # "handleSessionSubmit"
    /\ IF IsBlank(userId)
       THEN /\ ui' = [ui EXCEPT !.error = "Please enter your user ID"]
            /\ UNCHANGED <<handles, currentLogger, tasks, calls>>
       ELSE IF IsBlank(sessionCode)
       THEN /\ ui' = [ui EXCEPT !.error = "Please enter a session code"]
            /\ UNCHANGED <<handles, currentLogger, tasks, calls>>
       ELSE /\ CanCall
            /\ ui' = [ui EXCEPT !.error = "", !.showSessionPrompt = FALSE]
            /\ CreateLoggerStart(FreeSlot, Text(Trim(userId)), Text(Trim(sessionCode)),
                                 "handleSessionSubmit")
            /\ calls' = calls + 1
    /\ StoreUnchanged

\* HomeScreen.handleSessionSubmit after createLogger has settled: without a
\* logger it returns; with one it logs session_start, not awaited, and pushes
\* the keyboard screen.
HandleSessionSubmitResume(t) ==
    LET tk == tasks[t]
    IN  /\ tk.pc = "done"
        /\ tk.caller = "handleSessionSubmit"
        /\ IF tk.ret = 0
           THEN /\ tasks' = [tasks EXCEPT ![t] = IdleTask]
                /\ UNCHANGED <<ui, calls>>
           ELSE /\ tasks' = [tasks EXCEPT ![t] = LogTask(tk.ret, "session_start", EmptyData)]
                /\ calls' = calls + 1
                /\ ui' = [ui EXCEPT !.route = "/clockworks", !.mounted = FALSE]
        /\ UNCHANGED <<handles, currentLogger>>
        /\ StoreUnchanged

ViewLoadedData == << <<"view", "clockworks">> >>

\* The first effect of ClockworksApp, run when the keyboard screen has mounted.
ClockworksMount ==
    /\ NoneDone
    /\ ui.route = "/clockworks"
    /\ ~ui.mounted
    /\ IF currentLogger = 0
       THEN /\ ui' = [ui EXCEPT !.route = "/"]
            /\ UNCHANGED <<tasks, calls>>
       ELSE /\ CanCall
            /\ ui' = [ui EXCEPT !.mounted = TRUE, !.loggerRef = currentLogger]
            /\ tasks' = [tasks EXCEPT ![FreeSlot] =
                            LogTask(currentLogger, "view_loaded", ViewLoadedData)]
            /\ calls' = calls + 1
    /\ UNCHANGED <<handles, currentLogger>>
    /\ StoreUnchanged

\* ClockworksApp.handleTap: the call of log it makes in slot t, if any.
HandleTap(t, action) ==
    IF ui.loggerRef # 0
    THEN /\ IsIdle(t)
         /\ tasks' = [tasks EXCEPT ![t] =
                         LogTask(ui.loggerRef, "tap", << <<"action", action>> >>)]
         /\ calls' = calls + 1
    ELSE UNCHANGED <<tasks, calls>>

\* onKeyboardOpen of the incoming-message view.
OnKeyboardOpen ==
    /\ NoneDone
    /\ ui.route = "/clockworks"
    /\ ui.mounted
    /\ ui.currentView = "incoming_message"
    /\ \E t \in TaskIds : IsIdle(t)
    /\ ui' = [ui EXCEPT !.currentView = "keyboard",
                        !.gridWidth = 0, !.gridHeight = 0, !.keyPositions = <<>>,
                        !.lastLetterPressed = ""]
    /\ HandleTap(FreeSlot, "keyboard_open")
    /\ UNCHANGED <<handles, currentLogger>>
    /\ StoreUnchanged

\* A keyboard that drops the key it chose.
HandleKeyPressDropsLetter(message, letter) == message

\* KeyboardView.handleKeyPress: setMessage(message + letter)
HandleKeyPress(message, letter) == message \o letter

CurrentInput(message) == << <<"currentInput", message>> >>

ChangedOutcome(message, changedFrom, changedTo) ==
    << <<"currentInput", message>>, <<"changedFrom", changedFrom>>,
       <<"changedTo", changedTo>> >>

\* The idle slot after the first.
SecondFreeSlot == CHOOSE t \in TaskIds : t # FreeSlot /\ IsIdle(t)
                      /\ \A t2 \in TaskIds : (t2 # FreeSlot /\ t2 < t) => ~IsIdle(t2)

\* The letter rows of the keyboard.
keyLayout ==
    << <<"q", "w", "e", "r", "t", "y", "u", "i", "o", "p">>,
       <<"a", "s", "d", "f", "g", "h", "j", "k", "l">>,
       <<"z", "x", "c", "v", "b", "n", "m">> >>

LowerLetters ==
    <<"a", "b", "c", "d", "e", "f", "g", "h", "i", "j", "k", "l", "m",
      "n", "o", "p", "q", "r", "s", "t", "u", "v", "w", "x", "y", "z">>

UpperLetters ==
    <<"A", "B", "C", "D", "E", "F", "G", "H", "I", "J", "K", "L", "M",
      "N", "O", "P", "Q", "R", "S", "T", "U", "V", "W", "X", "Y", "Z">>

\* A conversion that leaves capitals as they are.
ToLowerCaseKeepsCapitals(ch) == ch

\* String.toLowerCase on one character.
ToLowerCase(ch) ==
    IF \E i \in DOMAIN UpperLetters : UpperLetters[i] = ch
    THEN LowerLetters[CHOOSE i \in DOMAIN UpperLetters : UpperLetters[i] = ch]
    ELSE ch

\* /^[a-z]$/.test(ch)
IsLowerLetter(ch) == \E i \in DOMAIN LowerLetters : LowerLetters[i] = ch

\* Probabilities are held in hundredths.
DEFAULT_PROBABILITY == 50

\* The table of data/hitboxProbabilities.json: for a previous letter, the
\* weight of each letter that may follow it. The weights are positive.
hitboxProbabilities ==
    [a |-> [a |-> 5, s |-> 90], g |-> [g |-> 5, h |-> 90]]

\* A lookup that never finds an entry.
getProbabilityAlwaysDefault(prevKey, targetKey) == DEFAULT_PROBABILITY

getProbability(prevKey, targetKey) ==
    LET prev == ToLowerCase(prevKey)
        target == ToLowerCase(targetKey)
    IN  IF ~IsLowerLetter(prev) \/ ~IsLowerLetter(target)
        THEN DEFAULT_PROBABILITY
        ELSE IF /\ prev \in DOMAIN hitboxProbabilities
                /\ target \in DOMAIN hitboxProbabilities[prev]
             THEN hitboxProbabilities[prev][target]
             ELSE DEFAULT_PROBABILITY

\* The key rectangles onGridLayout computes for a grid of width x height, in
\* the order it pushes them. Lengths are whole numbers of a unit in which
\* the grid sizes below divide evenly, so that every quotient is exact.
KeyAt(width, height, rowIndex, colIndex) ==
    LET rowHeight == height \div Len(keyLayout)
        keyWidth == width \div Len(keyLayout[rowIndex + 1])
    IN  [x |-> colIndex * keyWidth, y |-> rowIndex * rowHeight,
         width |-> keyWidth, height |-> rowHeight,
         letter |-> keyLayout[rowIndex + 1][colIndex + 1],
         row |-> rowIndex, col |-> colIndex]

ComputedRow(width, height, rowIndex) ==
    [i \in 1..Len(keyLayout[rowIndex + 1]) |-> KeyAt(width, height, rowIndex, i - 1)]

ComputedPositions(width, height) ==
    ComputedRow(width, height, 0) \o ComputedRow(width, height, 1)
        \o ComputedRow(width, height, 2)

\* updateKeyScales: the value it hands to setHitboxAffected.
\* |targetScale - BASE_SCALE| > 0.01 with targetScale = 1 + (p - 0.5) * 0.6
ScaleChanged(p) ==
    LET diff == IF p >= DEFAULT_PROBABILITY THEN p - DEFAULT_PROBABILITY
                ELSE DEFAULT_PROBABILITY - p
    IN  diff * 60 > 100

UpdateKeyScales(pressedLetter, currentKeyPositions, dynamicHitboxEnabled) ==
    IF currentKeyPositions = <<>> \/ ~IsLowerLetter(pressedLetter)
    THEN FALSE
    ELSE /\ dynamicHitboxEnabled
         /\ \E i \in DOMAIN currentKeyPositions :
                ScaleChanged(getProbability(pressedLetter, currentKeyPositions[i].letter))

\* a / b < c / d for naturals a, c and positive b, d, by the continued
\* fractions of the two quotients: no product is formed.
RECURSIVE RatLess(_, _, _, _)
RatLess(a, b, c, d) ==
    IF a \div b # c \div d
    THEN a \div b < c \div d
    ELSE IF c % d = 0 THEN FALSE
         ELSE IF a % b = 0 THEN TRUE
              ELSE RatLess(d, c % d, b, a % b)

\* 1000 * ln(p / 100), rounded, for the weights in use.
LnMilli(p) ==
    CASE p = 5 -> 0 - 2996
      [] p = 50 -> 0 - 693
      [] p = 90 -> 0 - 105

\* 1000 * normalizedDistance^2 / 0.25, within 2 of it, where
\* normalizedDistance^2 is 4 * distanceSq / avgTwice^2.
FalloffMilli(distanceSq, avgTwice) ==
    LET a == avgTwice * avgTwice
    IN  16000 * (distanceSq \div a) + 2 * ((8000 * (distanceSq % a)) \div a)

\* What the forEach of onResponderRelease pushes for key kp, the order-th key
\* of keyPositions. distanceSq is the square of distance, and avgTwice is
\* twice avgKeyDimension: normalized distances are compared below without
\* roots. The score is held by what orders it: without the probabilities,
\* -exp(normalizedDistance) falls as normalizedDistance grows; with them,
\* probability * exp(-normalizedDistance^2 / 0.25) is held by its
\* probability and by 1000 times its logarithm.
Candidate(kp, order, locationX, locationY, lastLetter, dynamicHitboxEnabled) ==
    LET centerX == kp.x + kp.width \div 2
        centerY == kp.y + kp.height \div 2
        dx == locationX - centerX
        dy == locationY - centerY
        distanceSq == dx * dx + dy * dy
        avgTwice == kp.width + kp.height
        weighted == dynamicHitboxEnabled /\ lastLetter # ""
        probability == IF weighted THEN getProbability(lastLetter, kp.letter)
                       ELSE DEFAULT_PROBABILITY
    IN  [keyPos |-> kp, order |-> order,
         distanceSq |-> distanceSq,
         touchInside |-> /\ locationX >= kp.x
                         /\ locationX <= kp.x + kp.width
                         /\ locationY >= kp.y
                         /\ locationY <= kp.y + kp.height,
         avgTwice |-> avgTwice,
         weighted |-> weighted,
         probability |-> probability,
         logScore |-> IF weighted
                      THEN LnMilli(probability) - FalloffMilli(distanceSq, avgTwice)
                      ELSE 0]

\* normalizedDistance of a is smaller than that of b.
NormalizedLess(a, b) ==
    RatLess(a.distanceSq, a.avgTwice * a.avgTwice, b.distanceSq, b.avgTwice * b.avgTwice)

\* A sort that takes the lower score for the higher.
HigherScoreReversed(a, b) == NormalizedLess(b, a)

\* a.score > b.score. Two keys of equal probability compare as their
\* normalized distances do, in either mode; two keys of different
\* probability compare by the logarithms of their scores.
HigherScore(a, b) ==
    IF a.weighted /\ a.probability # b.probability
    THEN a.logScore > b.logScore
    ELSE NormalizedLess(a, b)

\* A sort that is not stable: of two keys of equal score the later one
\* comes first.
SortsBeforeLaterFirst(a, b) ==
    \/ HigherScore(a, b)
    \/ /\ ~HigherScore(b, a)
       /\ a.order > b.order

\* a stands before b after candidates.sort((a, b) => b.score - a.score):
\* the sort is stable, keys of equal score keep the order of keyPositions.
SortsBefore(a, b) ==
    \/ HigherScore(a, b)
    \/ /\ ~HigherScore(b, a)
       /\ a.order < b.order

\* The index of the first of the candidates at the indexes in among after
\* the sort by score.
FirstByScore(candidates, among) ==
    CHOOSE i \in among : \A j \in among \ {i} : SortsBefore(candidates[i], candidates[j])

\* candidatesByDistance[0]: the sorted candidates are sorted again by
\* distance, keys of equal distance keep the order of the scores.
FirstByDistance(candidates) ==
    CHOOSE i \in DOMAIN candidates : \A j \in DOMAIN candidates \ {i} :
        \/ candidates[i].distanceSq < candidates[j].distanceSq
        \/ /\ candidates[i].distanceSq = candidates[j].distanceSq
           /\ SortsBefore(candidates[i], candidates[j])

MinOf(a, b) == IF a < b THEN a ELSE b

\* A threshold that turns away the touch that lies on it.
TooFarAtThreshold(candidates, gridWidth, gridHeight) ==
    \A i \in DOMAIN candidates :
        4 * candidates[i].distanceSq >= MinOf(gridWidth, gridHeight) * MinOf(gridWidth, gridHeight)

\* closestDistance > Math.min(gridWidth, gridHeight) * 0.5, on the squares.
TooFar(candidates, gridWidth, gridHeight) ==
    \A i \in DOMAIN candidates :
        4 * candidates[i].distanceSq > MinOf(gridWidth, gridHeight) * MinOf(gridWidth, gridHeight)

\* A flag that is raised whenever the two rankings differ.
DidChangeOutcomeWhereverTouched(candidates, lastLetter, dynamicHitboxEnabled) ==
    /\ Len(candidates) > 1
    /\ dynamicHitboxEnabled
    /\ lastLetter # ""
    /\ candidates[FirstByScore(candidates, DOMAIN candidates)].keyPos.letter
           # candidates[FirstByDistance(candidates)].keyPos.letter

\* probabilityDidChangeOutcome: the key of the highest score is not the
\* nearest key, and the first key in the order of the scores that holds the
\* touch, if any does, is not the key of the highest score.
DidChangeOutcome(candidates, lastLetter, dynamicHitboxEnabled) ==
    LET top == candidates[FirstByScore(candidates, DOMAIN candidates)]
        nearest == candidates[FirstByDistance(candidates)]
        touched == { i \in DOMAIN candidates : candidates[i].touchInside }
        touchedCandidate == candidates[FirstByScore(candidates, touched)]
    IN  /\ Len(candidates) > 1
        /\ dynamicHitboxEnabled
        /\ lastLetter # ""
        /\ top.keyPos.letter # nearest.keyPos.letter
        /\ \/ touched = {}
           \/ touchedCandidate.keyPos.letter # top.keyPos.letter

\* What onResponderRelease settles for a touch released at (locationX,
\* locationY): nothing (rejected), or the letter it hands to handleKeyPress,
\* probabilityDidChangeOutcome, and the letter the nearest key bears.
Resolve(keyPositions, gridWidth, gridHeight, locationX, locationY, lastLetter, dynamicHitboxEnabled) ==
    LET candidates == [i \in DOMAIN keyPositions |->
                          Candidate(keyPositions[i], i, locationX, locationY,
                                    lastLetter, dynamicHitboxEnabled)]
        top == candidates[FirstByScore(candidates, DOMAIN candidates)]
        nearest == candidates[FirstByDistance(candidates)]
        changed == DidChangeOutcome(candidates, lastLetter, dynamicHitboxEnabled)
    IN  IF keyPositions = <<>> \/ TooFar(candidates, gridWidth, gridHeight)
        THEN [rejected |-> TRUE, letter |-> "", changed |-> FALSE, changedFrom |-> ""]
        ELSE [rejected |-> FALSE, letter |-> top.keyPos.letter, changed |-> changed,
              changedFrom |-> IF changed THEN nearest.keyPos.letter ELSE ""]

\* The part of onResponderRelease after the sort, for a touch that settles
\* on letter: changedFrom is the letter of the nearest key where the
\* probabilities changed the outcome, and empty where they did not. The
\* calls of log are not awaited; handleKeyPress follows them.
KeyResolved(letter, changedFrom) ==
    LET logger == ui.loggerRef
        typed == LogTask(logger, "Typed " \o letter, CurrentInput(ui.message))
    IN  /\ NoneDone
        /\ ui.route = "/clockworks"
        /\ ui.mounted
        /\ ui.currentView = "keyboard"
        /\ Len(ui.message) < MaxMessage
        /\ IF changedFrom # ""
           THEN /\ \E t1, t2 \in TaskIds : t1 # t2 /\ IsIdle(t1) /\ IsIdle(t2)
                /\ tasks' = [tasks EXCEPT
                       ![FreeSlot] = LogTask(logger, "changed_outcome",
                                             ChangedOutcome(ui.message, changedFrom, letter)),
                       ![SecondFreeSlot] = typed]
                /\ calls' = calls + 2
           ELSE /\ \E t \in TaskIds : IsIdle(t)
                /\ tasks' = [tasks EXCEPT ![FreeSlot] = typed]
                /\ calls' = calls + 1
        /\ UNCHANGED <<handles, currentLogger>>
        /\ StoreUnchanged

\* What handleKeyPress leaves in the keyboard's state; setHitboxAffected of
\* updateKeyScales comes after the one of onResponderRelease.
KeyPressed(letter, changed) ==
    [ui EXCEPT !.message = HandleKeyPress(ui.message, letter),
               !.lastLetterPressed = letter,
               !.hitboxAffected =
                   IF ui.dynamicHitboxEnabled
                   THEN UpdateKeyScales(letter, ui.keyPositions, TRUE)
                   ELSE changed]

\* A release the keyboard settles on letter, whatever the touch was.
ReleaseOn(letter, changedFrom) ==
    /\ KeyResolved(letter, changedFrom)
    /\ ui' = KeyPressed(letter, changedFrom # "")

\* The grid sizes the layout pass reports, in a unit that divides every key
\* width, every key centre and every row height evenly: a width of 1260 gives
\* keys 126, 140 and 180 wide. A pass can report an empty grid.
GridWidths == {0, 1260}
GridHeights == {300}

\* The heights the grid is resized to in a run of SpecLayout.
LayoutHeights == {0, 300, 600}

\* Where touches are released: inside g next to the row below it and next
\* to h, inside t next to g, inside x next to s, on the edge of q and w, in
\* the corner of the grid, and below the grid at and beyond the rejection
\* distance.
Touches ==
    { <<630, 198>>, <<690, 150>>, <<629, 99>>, <<186, 222>>, <<126, 50>>,
      <<18, 10>>, <<630, 400>>, <<630, 1000>> }

\* The keys of the scenario of two keys: a centred at (10, 10) and s centred
\* at (30, 10), both 20 x 20, on a grid of 40 x 20.
ExampleKeys ==
    << [x |-> 0, y |-> 0, width |-> 20, height |-> 20, letter |-> "a", row |-> 0, col |-> 0],
       [x |-> 20, y |-> 0, width |-> 20, height |-> 20, letter |-> "s", row |-> 0, col |-> 1] >>

\* The key rectangles the keyboard can hold with the size of their grid:
\* none before the first layout pass, those of a measured grid, and those of
\* the scenario of two keys.
Grids ==
    { << <<>>, 0, 0 >>, <<ExampleKeys, 40, 20>> }
        \cup { <<ComputedPositions(width, height), width, height>> :
                   width \in GridWidths \ {0},
                   height \in (GridHeights \cup LayoutHeights) \ {0} }

\* Resolve on every grid, touch, last letter and setting in use.
Resolutions ==
    [g \in Grids, p \in Touches,
     lastLetter \in {""} \cup { LowerLetters[i] : i \in DOMAIN LowerLetters },
     dynamicHitboxEnabled \in BOOLEAN |->
        Resolve(g[1], g[2], g[3], p[1], p[2], lastLetter, dynamicHitboxEnabled)]

\* An engine that forgets the last letter while a write of the log is in flight.
LastLetterOnceLogged ==
    IF \A t \in TaskIds : IsIdle(t) THEN ui.lastLetterPressed ELSE ""

\* lastLetterPressed.current, as the engine reads it ("": null)
LastLetter == ui.lastLetterPressed

\* What the engine read at a release, and what it settled.
Resolution(locationX, locationY, lastLetter, r) ==
    [keyPositions |-> ui.keyPositions, gridWidth |-> ui.gridWidth,
     gridHeight |-> ui.gridHeight, locationX |-> locationX, locationY |-> locationY,
     lastLetter |-> lastLetter, dynamicHitboxEnabled |-> ui.dynamicHitboxEnabled,
     rejected |-> r.rejected, letter |-> r.letter, changed |-> r.changed]

\* KeyboardView.onResponderRelease for a touch released at (locationX,
\* locationY). Every release is a new event (stamp); remembered keeps the
\* release before the next one, with what the engine read and settled.
OnResponderRelease(locationX, locationY) ==
    LET r == Resolutions[<<ui.keyPositions, ui.gridWidth, ui.gridHeight>>,
                         <<locationX, locationY>>, LastLetter, ui.dynamicHitboxEnabled]
        touch == [locationX |-> locationX, locationY |-> locationY,
                  stamp |-> 1 - ui.touch.stamp]
        remembered == <<Resolution(locationX, locationY, ui.lastLetterPressed, r)>>
    IN  /\ NoneDone
        /\ ui.route = "/clockworks"
        /\ ui.mounted
        /\ ui.currentView = "keyboard"
        /\ IF r.rejected
           THEN /\ ui' = [ui EXCEPT !.touch = touch, !.remembered = remembered]
                /\ UNCHANGED <<handles, currentLogger, tasks, calls>>
                /\ StoreUnchanged
           ELSE /\ KeyResolved(r.letter, r.changedFrom)
                /\ ui' = [KeyPressed(r.letter, r.changed) EXCEPT
                             !.touch = touch, !.remembered = remembered]

\* What the keyboard holds after onGridLayout has handled a layout event of
\* width x height.
GridLaidOut(width, height) ==
    IF width = 0 \/ height = 0
    THEN ui
    ELSE [ui EXCEPT
             !.gridWidth = width,
             !.gridHeight = height,
             !.keyPositions = ComputedPositions(width, height),
             !.hitboxAffected =
                 IF ui.lastLetterPressed # "" /\ ui.dynamicHitboxEnabled
                 THEN UpdateKeyScales(ui.lastLetterPressed,
                                      ComputedPositions(width, height), TRUE)
                 ELSE @]

\* KeyboardView.onGridLayout
OnGridLayout(width, height) ==
    /\ NoneDone
    /\ ui.route = "/clockworks"
    /\ ui.mounted
    /\ ui.currentView = "keyboard"
    /\ ui' = GridLaidOut(width, height)
    /\ UNCHANGED <<handles, currentLogger, tasks, calls>>
    /\ StoreUnchanged

\* The grid view is resized to width x height and onGridLayout handles the
\* event; layout keeps the size the view now has.
OnGridResized(width, height) ==
    /\ NoneDone
    /\ ui.route = "/clockworks"
    /\ ui.mounted
    /\ ui.currentView = "keyboard"
    /\ ui' = [GridLaidOut(width, height) EXCEPT !.layout = <<width, height>>]
    /\ UNCHANGED <<handles, currentLogger, tasks, calls>>
    /\ StoreUnchanged

\* KeyboardView.handleSpacePress
HandleSpacePress ==
    /\ NoneDone
    /\ ui.route = "/clockworks"
    /\ ui.mounted
    /\ ui.currentView = "keyboard"
    /\ Len(ui.message) < MaxMessage
    /\ ui' = [ui EXCEPT !.message = @ \o " ",
                        !.lastLetterPressed = "",
                        !.hitboxAffected = UpdateKeyScales("", ui.keyPositions,
                                                           ui.dynamicHitboxEnabled)]
    /\ UNCHANGED <<handles, currentLogger, tasks, calls>>
    /\ StoreUnchanged

\* Characters of a message that the keyboard does not type: the message is
\* state of ClockworksApp, which sets it to a suggestion (onEdit) and hands it
\* to the number and symbol view as well.
OtherChars == {"O", "1"}

\* The characters a message on the keyboard screen is made of.
Chars == { LowerLetters[i] : i \in DOMAIN LowerLetters } \cup {" "} \cup OtherChars

\* The strings of at most n characters.
RECURSIVE StringsUpTo(_)
StringsUpTo(n) ==
    IF n = 0 THEN {""}
    ELSE StringsUpTo(n - 1) \cup { m \o ch : m \in StringsUpTo(n - 1), ch \in Chars }

\* Every message that is not empty, with what message.slice(0, -1) keeps of
\* it and the character it drops.
Slices ==
    { <<m \o ch, m, ch>> : m \in StringsUpTo(MaxMessage - 1), ch \in Chars }

DropLast(message) == (CHOOSE s \in Slices : s[1] = message)[2]

LastChar(message) == (CHOOSE s \in Slices : s[1] = message)[3]

\* KeyboardView.handleBackspace on a message that is not empty; on an empty
\* one it does nothing.
HandleBackspace ==
    LET newMessage == DropLast(ui.message)
        lastChar == ToLowerCase(LastChar(newMessage))
    IN  /\ NoneDone
        /\ ui.route = "/clockworks"
        /\ ui.mounted
        /\ ui.currentView = "keyboard"
        /\ ui.message # ""
        /\ \E t \in TaskIds : IsIdle(t)
        /\ tasks' = [tasks EXCEPT ![FreeSlot] =
                        LogTask(ui.loggerRef, "Backspace pressed", CurrentInput(ui.message))]
        /\ calls' = calls + 1
        /\ ui' = IF newMessage # "" /\ IsLowerLetter(lastChar)
                 THEN [ui EXCEPT !.message = newMessage,
                                 !.lastLetterPressed = lastChar,
                                 !.hitboxAffected =
                                     IF ui.dynamicHitboxEnabled
                                     THEN UpdateKeyScales(lastChar, ui.keyPositions, TRUE)
                                     ELSE FALSE]
                 ELSE [ui EXCEPT !.message = newMessage,
                                 !.lastLetterPressed = "",
                                 !.hitboxAffected = FALSE]
        /\ UNCHANGED <<handles, currentLogger>>
        /\ StoreUnchanged

\* KeyboardView.handleToggleNumberSymbolPress: onToggleNumberSymbol shows the
\* number and symbol view and logs the tap; the keyboard forgets its last
\* letter.
HandleToggleNumberSymbolPress ==
    /\ NoneDone
    /\ ui.route = "/clockworks"
    /\ ui.mounted
    /\ ui.currentView = "keyboard"
    /\ \E t \in TaskIds : IsIdle(t)
    /\ ui' = [ui EXCEPT !.currentView = "number_symbol",
                        !.lastLetterPressed = "",
                        !.hitboxAffected = UpdateKeyScales("", ui.keyPositions,
                                                           ui.dynamicHitboxEnabled)]
    /\ HandleTap(FreeSlot, "toggle_number_symbol")
    /\ UNCHANGED <<handles, currentLogger>>
    /\ StoreUnchanged

\* The back button of the header of the keyboard screen: the screen unmounts,
\* the cleanup of its first effect logs session_end, the settings screen shows.
HeaderBack ==
    /\ NoneDone
    /\ ui.route = "/clockworks"
    /\ ui.mounted
    /\ \E t \in TaskIds : IsIdle(t)
    /\ tasks' = [tasks EXCEPT ![FreeSlot] = LogTask(ui.loggerRef, "session_end", EmptyData)]
    /\ calls' = calls + 1
    /\ ui' = [HomeScreen EXCEPT !.showSessionPrompt = ui.showSessionPrompt,
                                !.error = ui.error]
    /\ UNCHANGED <<handles, currentLogger>>
    /\ StoreUnchanged

----------------------------------------------------------------------------
Next ==
    \/ calls < MaxCalls /\ \E ss \in Sessions : CreateLoggerCall(ss[1], ss[2])
    \/ calls < MaxCalls /\ \E h \in DOMAIN handles, in \in LogInputs : LogCall(h, in[1], in[2])
    \/ calls < MaxCalls /\ \E h \in DOMAIN handles, limit \in Limits : GetLogsCall(h, limit)
    \/ calls < MaxCalls /\ \E ss \in Sessions, limit \in Limits :
                               GetLogsForSessionCall(ss[1], ss[2], limit)
    \/ calls < MaxCalls /\ \E ss \in Sessions : DeleteLogsForSessionCall(ss[1], ss[2])
    \/ calls < MaxCalls /\ CloseAllLoggersCall
    \/ \E t \in TaskIds : InitOpen(t)
    \/ \E t \in TaskIds : InitExec(t)
    \/ \E t \in TaskIds : LogInsert(t)
    \/ \E t \in TaskIds : GetLogsSelect(t)
    \/ \E t \in TaskIds : SvcOpen(t)
    \/ \E t \in TaskIds : SvcSelect(t)
    \/ \E t \in TaskIds : SvcDelete(t)
    \/ \E t \in TaskIds : DelClose(t)
    \/ \E t \in TaskIds : SvcClose(t)
    \/ \E t \in TaskIds : CloseAllSettle(t)
    \/ \E t \in TaskIds : Return(t)
    \/ Tick
    \/ \E c \in DOMAIN conns : ConnectionLost(c)
    \/ StoreFails
    \/ StoreRecovers

\* Every operation of the registry and of its loggers, in any interleaving.
Spec == Init /\ [][Next]_vars

\* One session's logger used by one component over a longer run: the session
\* is opened (again and again), logged to and read while connections are lost
\* and the store fails.
NextHandle ==
    \/ calls < MaxHandleCalls /\ CreateLoggerCall("a", "c")
    \/ calls < MaxHandleCalls /\ \E h \in DOMAIN handles, in \in LogInputs :
                                     LogCall(h, in[1], in[2])
    \/ calls < MaxHandleCalls /\ \E h \in DOMAIN handles, limit \in Limits :
                                     GetLogsCall(h, limit)
    \/ \E t \in TaskIds : InitOpen(t)
    \/ \E t \in TaskIds : InitExec(t)
    \/ \E t \in TaskIds : LogInsert(t)
    \/ \E t \in TaskIds : GetLogsSelect(t)
    \/ \E t \in TaskIds : Return(t)
    \/ \E c \in DOMAIN conns : ConnectionLost(c)
    \/ StoreFails
    \/ StoreRecovers

SpecHandle == Init /\ [][NextHandle]_vars

\* The sessions opened in a run of SpecRemoval.
RemovalSessions == { <<"a", "c">>, <<"a-b", "c">> }

\* Loggers are opened, logged to through references their callers kept, and
\* taken out of the registry by deleteLogsForSession and closeAllLoggers.
NextRemoval ==
    \/ calls < MaxRemovalCalls /\ \E ss \in RemovalSessions : CreateLoggerCall(ss[1], ss[2])
    \/ calls < MaxRemovalCalls /\ \E h \in DOMAIN handles : LogCall(h, "tap", TapData)
    \/ calls < MaxRemovalCalls /\ \E ss \in RemovalSessions :
                                      DeleteLogsForSessionCall(ss[1], ss[2])
    \/ calls < MaxRemovalCalls /\ CloseAllLoggersCall
    \/ \E t \in TaskIds : InitOpen(t)
    \/ \E t \in TaskIds : InitExec(t)
    \/ \E t \in TaskIds : LogInsert(t)
    \/ \E t \in TaskIds : SvcOpen(t)
    \/ \E t \in TaskIds : SvcDelete(t)
    \/ \E t \in TaskIds : DelClose(t)
    \/ \E t \in TaskIds : SvcClose(t)
    \/ \E t \in TaskIds : CloseAllSettle(t)
    \/ \E t \in TaskIds : Return(t)
    \/ \E c \in DOMAIN conns : ConnectionLost(c)

SpecRemoval == Init /\ [][NextRemoval]_vars

\* The log viewer's operations on the store (list the sessions, read one,
\* delete one) while one session is opened and logged to and the store fails.
NextStore ==
    \/ calls < MaxStoreCalls /\ CreateLoggerCall("a", "c")
    \/ calls < MaxStoreCalls /\ \E h \in DOMAIN handles : LogCall(h, "tap", TapData)
    \/ calls < MaxStoreCalls /\ GetAllSessionsCall
    \/ calls < MaxStoreCalls /\ \E ss \in RemovalSessions :
                                    GetLogsForSessionCall(ss[1], ss[2], MaxStoreCalls)
    \/ calls < MaxStoreCalls /\ \E ss \in RemovalSessions :
                                    DeleteLogsForSessionCall(ss[1], ss[2])
    \/ calls < MaxStoreCalls /\ ExportDatabaseFileCall
    \/ \E t \in TaskIds : InitOpen(t)
    \/ \E t \in TaskIds : InitExec(t)
    \/ \E t \in TaskIds : LogInsert(t)
    \/ \E t \in TaskIds : SvcOpen(t)
    \/ \E t \in TaskIds : SvcSelect(t)
    \/ \E t \in TaskIds : SvcDelete(t)
    \/ \E t \in TaskIds : DelClose(t)
    \/ \E t \in TaskIds : SvcClose(t)
    \/ \E t \in TaskIds : ExpAvailable(t)
    \/ \E t \in TaskIds : ExpInfo(t)
    \/ \E t \in TaskIds : ExpCopy(t)
    \/ \E t \in TaskIds : ExpShare(t)
    \/ CleanupTimer
    \/ \E t \in TaskIds : Return(t)
    \/ \E c \in DOMAIN conns : ConnectionLost(c)
    \/ StoreFails
    \/ StoreRecovers

SpecStore == Init /\ [][NextStore]_vars

\* Every operation that reaches the store file, on two sessions, while the
\* store stays available: append, the two queries, the list of sessions,
\* delete and export.
NextRows ==
    \/ calls < MaxStoreCalls /\ \E ss \in RemovalSessions : CreateLoggerCall(ss[1], ss[2])
    \/ calls < MaxStoreCalls /\ \E h \in DOMAIN handles : LogCall(h, "tap", TapData)
    \/ calls < MaxStoreCalls /\ \E h \in DOMAIN handles : GetLogsCall(h, MaxStoreCalls)
    \/ calls < MaxStoreCalls /\ GetAllSessionsCall
    \/ calls < MaxStoreCalls /\ \E ss \in RemovalSessions :
                                    GetLogsForSessionCall(ss[1], ss[2], MaxStoreCalls)
    \/ calls < MaxStoreCalls /\ \E ss \in RemovalSessions :
                                    DeleteLogsForSessionCall(ss[1], ss[2])
    \/ calls < MaxStoreCalls /\ ExportDatabaseFileCall
    \/ \E t \in TaskIds : InitOpen(t)
    \/ \E t \in TaskIds : InitExec(t)
    \/ \E t \in TaskIds : LogInsert(t)
    \/ \E t \in TaskIds : GetLogsSelect(t)
    \/ \E t \in TaskIds : SvcOpen(t)
    \/ \E t \in TaskIds : SvcSelect(t)
    \/ \E t \in TaskIds : SvcDelete(t)
    \/ \E t \in TaskIds : DelClose(t)
    \/ \E t \in TaskIds : SvcClose(t)
    \/ \E t \in TaskIds : ExpAvailable(t)
    \/ \E t \in TaskIds : ExpInfo(t)
    \/ \E t \in TaskIds : ExpCopy(t)
    \/ \E t \in TaskIds : ExpShare(t)
    \/ CleanupTimer
    \/ \E t \in TaskIds : Return(t)

SpecRows == Init /\ [][NextRows]_vars

\* Exports of a store that a session writes to.
NextExport ==
    \/ calls < MaxExportCalls /\ CreateLoggerCall("a", "c")
    \/ calls < MaxExportCalls /\ \E h \in DOMAIN handles : LogCall(h, "tap", TapData)
    \/ calls < MaxExportCalls /\ ExportDatabaseFileCall
    \/ \E t \in TaskIds : InitOpen(t)
    \/ \E t \in TaskIds : InitExec(t)
    \/ \E t \in TaskIds : LogInsert(t)
    \/ \E t \in TaskIds : ExpAvailable(t)
    \/ \E t \in TaskIds : ExpInfo(t)
    \/ \E t \in TaskIds : ExpCopy(t)
    \/ \E t \in TaskIds : ExpShare(t)
    \/ CleanupTimer
    \/ \E t \in TaskIds : Return(t)
    \/ StoreFails
    \/ StoreRecovers

SpecExport == Init /\ [][NextExport]_vars

\* The event loop runs every callback that is due: a settled call resumes,
\* a timer that was set fires.
SpecExportFair ==
    /\ SpecExport
    /\ WF_vars(CleanupTimer)
    /\ \A t \in TaskIds : WF_vars(Return(t))

\* The application as its user drives it: a session is opened through the
\* prompt, the keyboard screen mounts, keys are tapped, the user goes back.
NextApp ==
    \/ ShowSessionPrompt
    \/ calls < MaxAppCalls /\ \E userId \in TypedUserIds, sessionCode \in TypedSessionCodes :
                                  HandleSubmit(userId, sessionCode)
    \/ \E t \in TaskIds : HandleSessionSubmitResume(t)
    \/ ClockworksMount
    \/ calls < MaxAppCalls /\ OnKeyboardOpen
    \/ calls < MaxAppCalls /\ \E letter \in Letters, changedFrom \in {"", "w"} :
                                  ReleaseOn(letter, changedFrom)
    \/ calls < MaxAppCalls /\ HeaderBack
    \/ \E t \in TaskIds : InitOpen(t)
    \/ \E t \in TaskIds : InitExec(t)
    \/ \E t \in TaskIds : LogInsert(t)
    \/ \E t \in TaskIds : Return(t)
    \/ \E c \in DOMAIN conns : ConnectionLost(c)
    \/ StoreFails
    \/ StoreRecovers

SpecApp == Init /\ [][NextApp]_vars

\* Identifiers a caller of the service can pass to createLogger: LoggerOptions
\* takes any two strings.
OptionsGiven == { <<"", "c">>, <<" ", "c">>, <<"a", "">> }

\* Opening a session, through the prompt and on the service directly.
NextOpen ==
    \/ ShowSessionPrompt
    \/ calls < MaxOpenCalls /\ \E userId \in TypedUserIds, sessionCode \in TypedSessionCodes :
                                   HandleSubmit(userId, sessionCode)
    \/ \E t \in TaskIds : HandleSessionSubmitResume(t)
    \/ ClockworksMount
    \/ calls < MaxOpenCalls /\ \E o \in OptionsGiven : CreateLoggerCall(o[1], o[2])
    \/ \E t \in TaskIds : InitOpen(t)
    \/ \E t \in TaskIds : InitExec(t)
    \/ \E t \in TaskIds : LogInsert(t)
    \/ \E t \in TaskIds : Return(t)
    \/ StoreFails
    \/ StoreRecovers

SpecOpen == Init /\ [][NextOpen]_vars

\* The keyboard screen as ClockworksApp shows it to user a in session c: the
\* logger of the session is open, session_start, view_loaded and the tap that
\* opened the keyboard are stored, no call is in flight. The route parameter
\* dynamicHitboxEnabled is either value of the switch of the settings screen.
KeyboardShown(dynamicHitboxEnabled) ==
    [HomeScreen EXCEPT !.route = "/clockworks", !.mounted = TRUE, !.loggerRef = 1,
                       !.currentView = "keyboard",
                       !.dynamicHitboxEnabled = dynamicHitboxEnabled]

StoredRow(id, message, data) ==
    [id |-> id, timestamp |-> 0, sessionCode |-> "c", userId |-> "a",
     message |-> message, data |-> Stringify(data)]

KeyboardStore ==
    /\ handles = << [userId |-> "a", sessionCode |-> "c", isInitialized |-> TRUE,
                     db |-> 1, lost |-> FALSE, removedBy |-> ""] >>
    /\ conns = <<TRUE>>
    /\ loggers = MapSet(EmptyMap, Key("a", "c"), 1)
    /\ currentLogger = 1
    /\ tableExists = TRUE
    /\ rows = << StoredRow(1, "session_start", EmptyData),
                 StoredRow(2, "view_loaded", ViewLoadedData),
                 StoredRow(3, "tap", << <<"action", "keyboard_open">> >>) >>
    /\ nextId = 4
    /\ clock = 0
    /\ storeAvailable = TRUE
    /\ tasks = [t \in TaskIds |-> IdleTask]
    /\ calls = 4
    /\ faults = 0
    /\ scratch = [copy |-> FALSE, shared |-> {}, timers |-> <<>>,
                  cleaned |-> [after |-> "", failed |-> FALSE]]

InitKeyboard ==
    /\ KeyboardStore
    /\ \E dynamicHitboxEnabled \in BOOLEAN : ui = KeyboardShown(dynamicHitboxEnabled)

\* The keyboard in use: the grid is laid out, touches are released, the
\* space bar and the backspace key are pressed, the writes of the log settle.
NextKeyboard ==
    \/ \E width \in GridWidths, height \in GridHeights : OnGridLayout(width, height)
    \/ calls < MaxKeyboardCalls /\ \E p \in Touches : OnResponderRelease(p[1], p[2])
    \/ HandleSpacePress
    \/ calls < MaxKeyboardCalls /\ HandleBackspace
    \/ \E t \in TaskIds : LogInsert(t)
    \/ \E t \in TaskIds : Return(t)

SpecKeyboard == InitKeyboard /\ [][NextKeyboard]_vars

\* The scenario of two keys: the keyboard holds a and s, a has been typed,
\* the probabilities are switched on.
InitExample ==
    /\ KeyboardStore
    /\ ui = [KeyboardShown(TRUE) EXCEPT !.gridWidth = 40, !.gridHeight = 20,
                                        !.keyPositions = ExampleKeys,
                                        !.message = "a", !.lastLetterPressed = "a"]

NextExample ==
    \/ \E width \in GridWidths, height \in GridHeights : OnGridLayout(width, height)
    \/ calls < MaxExampleCalls /\ \E p \in Touches : OnResponderRelease(p[1], p[2])
    \/ HandleSpacePress
    \/ calls < MaxExampleCalls /\ HandleBackspace
    \/ \E t \in TaskIds : LogInsert(t)
    \/ \E t \in TaskIds : Return(t)

SpecExample == InitExample /\ [][NextExample]_vars

\* What the message holds when the keyboard mounts: nothing, a suggestion
\* taken for editing, or what the number and symbol view left.
MountMessages == {"", "Og", "1q"}

\* The touches of a run of SpecTyping: on a key, and far off the keys.
TypingTouches == { <<690, 150>>, <<630, 1000>> }

InitTyping ==
    /\ KeyboardStore
    /\ \E dynamicHitboxEnabled \in BOOLEAN, message \in MountMessages :
           ui = [KeyboardShown(dynamicHitboxEnabled) EXCEPT !.message = message]

\* Every handler of the keyboard that touches lastLetterPressed.
NextTyping ==
    \/ \E width \in GridWidths, height \in GridHeights : OnGridLayout(width, height)
    \/ calls < MaxKeyboardCalls /\ \E p \in TypingTouches : OnResponderRelease(p[1], p[2])
    \/ HandleSpacePress
    \/ calls < MaxKeyboardCalls /\ HandleBackspace
    \/ calls < MaxKeyboardCalls /\ HandleToggleNumberSymbolPress
    \/ \E t \in TaskIds : LogInsert(t)
    \/ \E t \in TaskIds : Return(t)

SpecTyping == InitTyping /\ [][NextTyping]_vars

\* The grid is resized, to nothing as well, while touches are released.
NextLayout ==
    \/ \E width \in GridWidths, height \in LayoutHeights : OnGridResized(width, height)
    \/ calls < MaxKeyboardCalls /\ \E p \in TypingTouches : OnResponderRelease(p[1], p[2])
    \/ calls < MaxKeyboardCalls /\ HandleBackspace
    \/ \E t \in TaskIds : LogInsert(t)
    \/ \E t \in TaskIds : Return(t)

SpecLayout == InitKeyboard /\ [][NextLayout]_vars

----------------------------------------------------------------------------
\* Properties.

\* Call t has just settled with operation op and is handing over its result.
Done(t, op) == tasks[t].pc = "done" /\ tasks[t].op = op

\* Logger h holds a connection that is open.
HoldsOpen(h) == IsOpen(handles[h].db)

\* The loggers stored in the registry map.
Registered == {loggers[k] : k \in DOMAIN loggers}

HandleKey(h) == Key(handles[h].userId, handles[h].sessionCode)

\* C1: in every reachable state at most one logger holding an open connection
\* exists for a session key, also while createLogger calls for that key overlap.
C1_OneOpenHandlePerKey ==
    \A h1 \in DOMAIN handles, h2 \in DOMAIN handles :
        (h1 # h2 /\ HandleKey(h1) = HandleKey(h2)) => ~(HoldsOpen(h1) /\ HoldsOpen(h2))

C3_LostHandleReinitializes ==
    \A t \in TaskIds :
        (Done(t, "log") /\ handles[tasks[t].h].lost /\ storeAvailable)
            => tasks[t].outcome # "ignored"

\* C4: once an append has been written, a query for its session with a limit
\* of at least the number of stored entries returns its entry first.
C4_AppendThenQueryNewestFirst ==
    \A t \in TaskIds :
        (Done(t, "log") /\ tasks[t].outcome = "written") =>
            \A r \in SelectForSession(rows, handles[tasks[t].h].userId,
                                      handles[tasks[t].h].sessionCode, Len(rows)) :
                /\ r # <<>>
                /\ r[1].message = tasks[t].message
                /\ r[1].data = tasks[t].data

\* The entries of r all belong to the session.
AllOfSession(r, userId, sessionCode) ==
    \A i \in DOMAIN r : r[i].userId = userId /\ r[i].sessionCode = sessionCode

\* C5 as stated: getLogs and getLogsForSession return at most limit entries,
\* all of them of the session asked for.
C5_QueriesReturnOwnSession ==
    \A t \in TaskIds :
        (Done(t, "getLogs") \/ Done(t, "getLogsForSession")) =>
            /\ Len(tasks[t].entries) <= tasks[t].limit
            /\ AllOfSession(tasks[t].entries, tasks[t].userId, tasks[t].sessionCode)

\* C5 as amended: both queries return at most limit entries; the entries of
\* getLogsForSession are all of the session asked for.
C5_LimitAndSessionFilter ==
    \A t \in TaskIds :
        /\ Done(t, "getLogs") => Len(tasks[t].entries) <= tasks[t].limit
        /\ Done(t, "getLogsForSession") =>
              /\ Len(tasks[t].entries) <= tasks[t].limit
              /\ AllOfSession(tasks[t].entries, tasks[t].userId, tasks[t].sessionCode)

\* C5 witness: getLogsForSession returned entries while the store also holds
\* a row of another session.
C5_Witness ==
    \E t \in TaskIds :
        /\ Done(t, "getLogsForSession")
        /\ tasks[t].entries # <<>>
        /\ ~AllOfSession(rows, tasks[t].userId, tasks[t].sessionCode)

\* C6: when deleteLogsForSession reports success, a query for the session
\* returns nothing.
C6_DeleteThenQueryEmpty ==
    \A t \in TaskIds :
        (Done(t, "deleteLogsForSession") /\ tasks[t].ok) =>
            \A r \in SelectForSession(rows, tasks[t].userId, tasks[t].sessionCode, Len(rows)) :
                r = <<>>

\* C7: the logger createLogger returns for (userId, sessionCode) is a logger
\* of that user and that session.
C7_HandleIsOfRequestedSession ==
    \A t \in TaskIds :
        (Done(t, "createLogger") /\ tasks[t].ret # 0) =>
            /\ handles[tasks[t].ret].userId = tasks[t].userId
            /\ handles[tasks[t].ret].sessionCode = tasks[t].sessionCode

\* C8: a createLogger call for a key whose logger is registered and active
\* returns that logger at once, constructs no logger, opens no connection
\* and leaves the registry map as it was.
C8_CreateLoggerIdempotent ==
    [][\A t \in TaskIds :
          (/\ IsIdle(t)
           /\ tasks'[t].op = "createLogger"
           /\ Key(tasks'[t].userId, tasks'[t].sessionCode) \in DOMAIN loggers
           /\ handles[loggers[Key(tasks'[t].userId, tasks'[t].sessionCode)]].isInitialized)
          => /\ tasks'[t].pc = "done"
             /\ tasks'[t].ret = loggers[Key(tasks'[t].userId, tasks'[t].sessionCode)]
             /\ handles' = handles
             /\ conns' = conns
             /\ loggers' = loggers]_vars

\* C8 witness: a createLogger call found its key registered and active and
\* returned the registered logger.
C8_Witness ==
    \E t \in TaskIds :
        /\ Done(t, "createLogger")
        /\ ~tasks[t].fresh
        /\ tasks[t].reopens = 0
        /\ tasks[t].ret # 0
        /\ tasks[t].ret \in Registered
        /\ handles[tasks[t].ret].userId = tasks[t].userId
        /\ handles[tasks[t].ret].sessionCode = tasks[t].sessionCode
        /\ isActive(tasks[t].ret)

\* C9: createLogger never returns a logger for which isActive() is false.
C9_ReturnedHandleIsActive ==
    \A t \in TaskIds :
        (Done(t, "createLogger") /\ tasks[t].ret # 0) => isActive(tasks[t].ret)

\* C10: when deleteLogsForSession reports success for a session whose logger
\* was registered, that logger is inactive, has no connection, is not in the
\* registry, and is not the current logger.
C10_DeleteClosesAndDeregisters ==
    \A t \in TaskIds :
        (Done(t, "deleteLogsForSession") /\ tasks[t].ok /\ tasks[t].h # 0) =>
            /\ ~handles[tasks[t].h].isInitialized
            /\ handles[tasks[t].h].db = 0
            /\ tasks[t].h \notin Registered
            /\ currentLogger # tasks[t].h

\* C11: a logger that deleteLogsForSession or closeAllLoggers took out of the
\* registry never becomes active again and never writes another entry.
C11_RemovedIsTerminal ==
    [][\A h \in DOMAIN handles :
          handles[h].removedBy # "" =>
              /\ handles'[h].isInitialized => handles[h].isInitialized
              /\ \A t \in TaskIds :
                    ~(tasks[t].h = h /\ tasks[t].op = "log"
                        /\ tasks[t].outcome # "written" /\ tasks'[t].outcome = "written")]_vars

\* C12: when closeAllLoggers returns, the registry is empty, there is no
\* current logger, and every logger it took out of the registry is closed:
\* inactive and without connection.
C12_CloseAllClosesEveryRemoved ==
    \A t \in TaskIds :
        Done(t, "closeAllLoggers") =>
            /\ loggers = EmptyMap
            /\ currentLogger = 0
            /\ \A h \in DOMAIN handles :
                  handles[h].removedBy = "closeAllLoggers" =>
                      ~isActive(h) /\ handles[h].db = 0

\* Call t settles in this step as a createLogger call that returns a logger.
CreateLoggerSucceeds(t) ==
    /\ tasks[t].pc # "done"
    /\ tasks'[t].pc = "done"
    /\ tasks'[t].op = "createLogger"
    /\ tasks'[t].ret # 0

\* C13: the current logger (what getLogger() returns) changes only when a
\* createLogger call returns a logger, which then is the current one, when
\* deleteLogsForSession removes the current logger's session, or when
\* closeAllLoggers finishes; every createLogger call that returns a logger
\* makes it the current one.
C13_CurrentIsLastCreated ==
    [][/\ currentLogger' # currentLogger =>
            \/ \E t \in TaskIds : CreateLoggerSucceeds(t) /\ currentLogger' = tasks'[t].ret
            \/ \E t \in TaskIds :
                  /\ tasks[t].op = "deleteLogsForSession"
                  /\ tasks[t].userId = handles[currentLogger].userId
                  /\ tasks[t].sessionCode = handles[currentLogger].sessionCode
                  /\ currentLogger' = 0
            \/ \E t \in TaskIds :
                  /\ tasks'[t].op = "closeAllLoggers"
                  /\ tasks'[t].pc = "done"
                  /\ currentLogger' = 0
       /\ \A t \in TaskIds : CreateLoggerSucceeds(t) => currentLogger' = tasks'[t].ret]_vars

\* The result of the getAllSessions call t is determined in this step: its
\* open failed or its SELECT settled.
SessionsAnswered(t) ==
    /\ tasks'[t].op = "getAllSessions"
    /\ tasks[t].pc \in {"svc_open", "svc_select"}
    /\ tasks'[t].pc \in {"svc_close", "done"}

\* The elements of a sequence.
Range(q) == { q[i] : i \in DOMAIN q }

C15_MissingTableIsNotAnError ==
    /\ [](\A t \in TaskIds :
            (tasks[t].pc = "done" /\ tasks[t].outcome = "no_table") =>
                /\ tasks[t].entries = <<>>
                /\ tasks[t].op = "deleteLogsForSession" => tasks[t].ok)
    /\ [][\A t \in TaskIds :
            (/\ tasks[t].pc \in {"svc_select", "svc_delete"}
             /\ tasks'[t].pc # tasks[t].pc
             /\ ~tableExists
             /\ storeAvailable) =>
                /\ tasks'[t].pc = "svc_close"
                /\ tasks'[t].outcome = "no_table"
                /\ tasks'[t].entries = <<>>
                /\ tasks[t].op = "deleteLogsForSession" => tasks'[t].ok
                /\ rows' = rows
                /\ loggers' = loggers
                /\ handles' = handles
                /\ currentLogger' = currentLogger]_vars

\* C15 witness: deleteLogsForSession found no table and reports success.
C15_Witness ==
    \E t \in TaskIds :
        /\ Done(t, "deleteLogsForSession")
        /\ tasks[t].outcome = "no_table"
        /\ tasks[t].ok
        /\ ~tableExists

\* The call ended on an I/O failure other than a missing table: the store
\* could not be opened, a statement or a file operation failed, or the
\* connection was closed.
Failed(tk) ==
    tk.outcome \in {"open_failed", "conn_closed", "reconnect_failed", "export_error"}
                       \cup StatementErrors

\* What the call hands to its caller differs from what a successful call
\* hands over: log and exportDatabaseFile return nothing and the queries
\* return a list in either case; only the false of deleteLogsForSession does.
ReturnsError(tk) == tk.op = "deleteLogsForSession" /\ ~tk.ok

SilentOutcomes == {"ignored", "written", "conn_closed", "reconnect_failed", "write_error"}

\* C17: a failed background log write is silent.  Every call of log, whatever
\* the state of its logger, is in flight or has ended in one of the silent
\* ways, never by raising; and every tap on a key, whose log call it does not
\* await, appends the chosen letter to the message whatever becomes of the write.
C17_FailedLogIsSilent ==
    /\ [](\A t \in TaskIds : tasks[t].op = "log" => tasks[t].outcome \in SilentOutcomes \cup {""})
    /\ [][\A t \in TaskIds, letter \in Letters :
            (tasks'[t].message = "Typed " \o letter /\ tasks[t].op = "idle")
                => ui'.message = ui.message \o letter]_vars

\* A tap's write has failed with an error other than a closed connection, and
\* the letter is in the message.
C17_Witness ==
    \E t \in TaskIds :
        /\ tasks[t].message = "Typed q"
        /\ tasks[t].pc = "done"
        /\ tasks[t].outcome = "write_error"
        /\ ui.message = "q"

\* The strings that are empty or hold only whitespace, among those passed.
BlankTexts == {"", " "}

\* A createLogger call was given an empty or whitespace-only identifier.
GivenBlank(tk) ==
    tk.op = "createLogger" /\ (tk.userId \in BlankTexts \/ tk.sessionCode \in BlankTexts)

\* C18, as stated: a createLogger call given an empty or whitespace-only user
\* id or session code fails: it returns no logger, registers none under its
\* key and leaves the current logger as it was.
C18_BlankIdsAreRejected ==
    /\ [](\A t \in TaskIds :
            (GivenBlank(tasks[t]) /\ tasks[t].pc = "done")
                => /\ tasks[t].ret = 0
                   /\ Key(tasks[t].userId, tasks[t].sessionCode) \notin DOMAIN loggers)
    /\ [][\A t \in TaskIds : GivenBlank(tasks'[t]) => currentLogger' = currentLogger]_vars

\* C18, amended: createLogger validates nothing.  Given an empty or
\* whitespace-only identifier it initializes a logger as for any other, and
\* when that succeeds registers it under its key and makes it current; it
\* returns null only when initialization failed.  The session prompt is what
\* rejects such identifiers: handleSubmit passes on trimmed, non-empty
\* identifiers only, and a submission it rejects with an error message makes
\* no call, constructs no logger and leaves registry and current logger alone.
C18_OnlyThePromptValidates ==
    /\ [](\A t \in TaskIds :
            /\ (GivenBlank(tasks[t]) /\ tasks[t].pc = "done" /\ tasks[t].fresh)
                  => IF handles[tasks[t].h].isInitialized
                     THEN /\ tasks[t].ret = tasks[t].h
                          /\ Key(tasks[t].userId, tasks[t].sessionCode) \in DOMAIN loggers
                          /\ loggers[Key(tasks[t].userId, tasks[t].sessionCode)] = tasks[t].h
                          /\ currentLogger = tasks[t].h
                     ELSE tasks[t].ret = 0
            /\ tasks[t].caller = "handleSessionSubmit"
                  => /\ tasks[t].userId \notin BlankTexts \cup {" a"}
                     /\ tasks[t].sessionCode \notin BlankTexts)
    /\ [][(ui'.error # "" /\ ui' # ui)
            => /\ tasks' = tasks
               /\ handles' = handles
               /\ loggers' = loggers
               /\ currentLogger' = currentLogger]_vars

\* createLogger, called with an empty user id, has registered a logger and
\* returned it, while the prompt shows the error of a rejected submission.
C18_Witness ==
    /\ ui.error = "Please enter your user ID"
    /\ \E t \in TaskIds :
        /\ tasks[t].op = "createLogger"
        /\ tasks[t].userId = ""
        /\ tasks[t].pc = "done"
        /\ tasks[t].ret # 0
        /\ HasLogger("-c")

\* C19: a failed session open blocks entry into the keyboard experience.  When
\* the application pushes the keyboard screen, the createLogger call of the
\* submission has returned the logger of the submitted session, and that
\* logger is active at that moment.
C19_NavigatesOnlyWithActiveHandle ==
    [][(ui.route = "/" /\ ui'.route = "/clockworks")
          => \E t \in TaskIds :
                /\ tasks[t].caller = "handleSessionSubmit"
                /\ tasks[t].pc = "done"
                /\ tasks[t].ret # 0
                /\ handles[tasks[t].ret].userId = tasks[t].userId
                /\ handles[tasks[t].ret].sessionCode = tasks[t].sessionCode
                /\ handles[tasks[t].ret].isInitialized]_vars

\* Call t of log has started its INSERT and the statement has not settled.
WriteInFlight(t) == tasks[t].op = "log" /\ tasks[t].pc = "log_insert"

\* C20: the operations of one logger are serialized.  No call of log starts
\* its write while the write of another call on the same logger is in flight.
C20_WritesSerializedPerHandle ==
    \A t1, t2 \in TaskIds :
        (t1 # t2 /\ tasks[t1].h = tasks[t2].h /\ WriteInFlight(t1)) => ~WriteInFlight(t2)

\* A re-initialization of logger h is in flight: a call of log or getLogs is
\* reconnecting it, or createLogger is re-initializing the registered logger.
ReconnectInFlight(h) ==
    \E t \in TaskIds :
        /\ tasks[t].h = h
        /\ tasks[t].pc \in {"init_open", "init_exec"}
        /\ ~tasks[t].fresh

\* C21: a call of log that arrives while a re-initialization of its logger is
\* in flight waits for it.  At its first await the call has not issued its
\* INSERT on the logger, has not returned without writing, and has not
\* started a second initialize.
C21_AppendWaitsForReconnect ==
    [][\A t \in TaskIds :
          (tasks[t].op # "log" /\ tasks'[t].op = "log" /\ ReconnectInFlight(tasks'[t].h))
              => tasks'[t].pc \notin {"log_insert", "done", "init_open"}]_vars

\* Call t of exportDatabaseFile takes a step, or is made.
ExportSteps(t) ==
    /\ tasks'[t].op = "exportDatabaseFile"
    /\ tasks'[t] # tasks[t]

\* C22: exportDatabaseFile hands the share sheet only the copy in the export
\* directory, never the store file; no step of it changes the rows of the
\* store, the registry or the current logger; and a retry is like a first
\* attempt: while an export is sharing, the copy it made is there.
C22_ExportSharesCopyAndRetries ==
    /\ [](/\ scratch.shared \subseteq {"log_exports/appLogs.db"}
          /\ \A t \in TaskIds : tasks[t].pc = "exp_share" => scratch.copy)
    /\ [][\A t \in TaskIds :
            ExportSteps(t) => /\ rows' = rows
                              /\ loggers' = loggers
                              /\ currentLogger' = currentLogger]_vars

\* C23: every export that made a copy has it deleted after the delay, whether
\* it shared the copy or failed to.  An export that ends after it called
\* shareAsync sets a cleanup timer, whatever its outcome; every timer that is
\* set fires; a cleanup that does not fail leaves no copy; and a cleanup,
\* failed or not, changes nothing but the export directory: no call in flight
\* sees it and everything that could run before it can run after it.
C23_CopyIsCleanedUp ==
    /\ \A n \in 1..MaxExportCalls :
          (Len(scratch.timers) = n) ~> (Len(scratch.timers) < n)
    /\ [][/\ \A t \in TaskIds :
               (tasks[t].pc = "exp_share" /\ tasks'[t].pc = "done")
                   => Len(scratch'.timers) = Len(scratch.timers) + 1
          /\ Len(scratch'.timers) < Len(scratch.timers)
               => /\ ~scratch'.cleaned.failed => ~scratch'.copy
                  /\ tasks' = tasks
                  /\ <<handles, conns, loggers, currentLogger, tableExists, rows, nextId,
                       storeAvailable, ui>>' =
                     <<handles, conns, loggers, currentLogger, tableExists, rows, nextId,
                       storeAvailable, ui>>]_vars

\* The cleanup of an export that failed has run and the copy that was handed
\* to the share sheet is gone.
C23_Witness ==
    /\ scratch.shared # {}
    /\ scratch.cleaned = [after |-> "export_error", failed |-> FALSE]
    /\ ~scratch.copy
    /\ scratch.timers = <<>>

\* The letters of the keyboard.
KeyLetters == { LowerLetters[i] : i \in DOMAIN LowerLetters }

\* This step hands letter to handleKeyPress: the call of log for it starts.
Types(letter) ==
    \E t \in TaskIds :
        /\ tasks[t].op = "idle"
        /\ tasks'[t].op = "log"
        /\ tasks'[t].message = "Typed " \o letter

\* This step is a release the engine accepts.
Accepts == \E letter \in KeyLetters : Types(letter)

\* This step is a release: a new touch event is handled.
Releases == ui'.touch # ui.touch

\* This step logs changed_outcome: probabilityDidChangeOutcome is true.
LogsChange ==
    \E t \in TaskIds :
        /\ tasks[t].op = "idle"
        /\ tasks'[t].op = "log"
        /\ tasks'[t].message = "changed_outcome"

\* The touch lies inside the rectangle of kp, off its edges.
StrictlyInside(kp, touch) ==
    /\ touch.locationX > kp.x
    /\ touch.locationX < kp.x + kp.width
    /\ touch.locationY > kp.y
    /\ touch.locationY < kp.y + kp.height

\* The touch lies inside the rectangle of kp or on its edges.
Inside(kp, touch) ==
    /\ touch.locationX >= kp.x
    /\ touch.locationX <= kp.x + kp.width
    /\ touch.locationY >= kp.y
    /\ touch.locationY <= kp.y + kp.height

\* Four times the square of the distance from the touch to the centre of kp.
CentreDistanceSq4(kp, touch) ==
    (2 * touch.locationX - (2 * kp.x + kp.width)) * (2 * touch.locationX - (2 * kp.x + kp.width))
        + (2 * touch.locationY - (2 * kp.y + kp.height)) * (2 * touch.locationY - (2 * kp.y + kp.height))

\* C24: with the probabilities switched off, a touch released strictly inside
\* the rectangle of a key of the measured layout types that key, and the
\* outcome is not reported as changed.
C24_InsideTapChoosesKey ==
    [][(Releases /\ ~ui.dynamicHitboxEnabled)
          => \A i \in DOMAIN ui.keyPositions :
                 StrictlyInside(ui.keyPositions[i], ui'.touch)
                     => Types(ui.keyPositions[i].letter) /\ ~LogsChange]_vars

\* The rejection rule as the claim states it: no key is measured, or every
\* key centre is farther from the touch than half the smaller side of the grid.
RejectedByRule(keyPositions, gridWidth, gridHeight, touch) ==
    \/ keyPositions = <<>>
    \/ \A i \in DOMAIN keyPositions :
           CentreDistanceSq4(keyPositions[i], touch)
               > MinOf(gridWidth, gridHeight) * MinOf(gridWidth, gridHeight)

\* C25: a release is rejected exactly when no key is measured or the nearest
\* key centre is farther than half the smaller side of the grid; a rejected
\* release types no key, starts no call of the log, and leaves the message,
\* the last letter and the flag of the changed outcome as they were; any
\* other release types a key.
C25_RejectedExactlyWhenTooFar ==
    [][Releases
          => IF RejectedByRule(ui.keyPositions, ui.gridWidth, ui.gridHeight, ui'.touch)
             THEN /\ ~Accepts
                  /\ tasks' = tasks
                  /\ calls' = calls
                  /\ rows' = rows
                  /\ ui'.message = ui.message
                  /\ ui'.lastLetterPressed = ui.lastLetterPressed
                  /\ ui'.hitboxAffected = ui.hitboxAffected
             ELSE Accepts]_vars

\* A touch far below the measured grid has been released after g was typed:
\* nothing but the touch has changed.
C25_Witness ==
    /\ ui.keyPositions # <<>>
    /\ ui.touch.locationX = 630
    /\ ui.touch.locationY = 1000
    /\ RejectedByRule(ui.keyPositions, ui.gridWidth, ui.gridHeight, ui.touch)
    /\ ui.message = "g"
    /\ ui.lastLetterPressed = "g"
    /\ \A t \in TaskIds : IsIdle(t)
    /\ Len(rows) = 4

\* C26: with the probabilities switched off, or with no last letter, an
\* accepted release types a key whose centre is nearest to the touch.
C26_NearestKeyWithoutProbabilities ==
    [][(Accepts /\ (~ui.dynamicHitboxEnabled \/ ui.lastLetterPressed = ""))
          => \A i \in DOMAIN ui.keyPositions :
                 Types(ui.keyPositions[i].letter)
                     => \A j \in DOMAIN ui.keyPositions :
                            CentreDistanceSq4(ui.keyPositions[i], ui'.touch)
                                <= CentreDistanceSq4(ui.keyPositions[j], ui'.touch)]_vars

\* The candidates of a release at touch, as the engine computes them from
\* the keyboard's state.
CandidatesAt(touch) ==
    [i \in DOMAIN ui.keyPositions |->
        Candidate(ui.keyPositions[i], i, touch.locationX, touch.locationY,
                  ui.lastLetterPressed, ui.dynamicHitboxEnabled)]

C28_ChangedIffOutsideNearestKey ==
    [][Accepts
          => \A i \in DOMAIN ui.keyPositions :
                 Types(ui.keyPositions[i].letter)
                     => (LogsChange
                           <=> \E j \in DOMAIN ui.keyPositions :
                                   /\ \A k \in DOMAIN ui.keyPositions :
                                          CentreDistanceSq4(ui.keyPositions[j], ui'.touch)
                                              <= CentreDistanceSq4(ui.keyPositions[k], ui'.touch)
                                   /\ CentreDistanceSq4(ui.keyPositions[j], ui'.touch)
                                          < CentreDistanceSq4(ui.keyPositions[i], ui'.touch)
                                   /\ ~Inside(ui.keyPositions[j], ui'.touch))]_vars

\* C28: the outcome is reported as changed exactly when the probabilities are
\* in use (switched on, with a last letter), some key is nearer to the touch
\* than the typed key, and the touch does not lie inside the rectangle of
\* the typed key, edges included.
C28_ChangedIffOutsideTypedKey ==
    [][Accepts
          => \A i \in DOMAIN ui.keyPositions :
                 Types(ui.keyPositions[i].letter)
                     => (LogsChange
                           <=> /\ ui.dynamicHitboxEnabled
                               /\ ui.lastLetterPressed # ""
                               /\ \E j \in DOMAIN ui.keyPositions :
                                      CentreDistanceSq4(ui.keyPositions[j], ui'.touch)
                                          < CentreDistanceSq4(ui.keyPositions[i], ui'.touch)
                               /\ ~Inside(ui.keyPositions[i], ui'.touch))]_vars

\* After g, a touch inside g next to h has typed h, and the change from g to
\* h is being logged.
C28_Witness ==
    /\ ui.message = "gh"
    /\ ui.touch.locationX = 690
    /\ ui.touch.locationY = 150
    /\ \E i \in DOMAIN ui.keyPositions :
           /\ ui.keyPositions[i].letter = "g"
           /\ StrictlyInside(ui.keyPositions[i], ui.touch)
    /\ \E t \in TaskIds :
           /\ tasks[t].message = "changed_outcome"
           /\ tasks[t].data = Stringify(ChangedOutcome("g", "g", "h"))

\* C29: in the scenario of two keys (a centred at (10, 10), s at (30, 10),
\* both 20 x 20), after a, with the weights 0.9 for a -> s and 0.05 for
\* a -> a and the probabilities switched on, a touch released at (18, 10)
\* types s and is reported as a changed outcome.
C29_ExampleSelectsS ==
    [][(/\ Releases
        /\ ui.keyPositions = ExampleKeys
        /\ ui.gridWidth = 40
        /\ ui.gridHeight = 20
        /\ ui.lastLetterPressed = "a"
        /\ ui.dynamicHitboxEnabled
        /\ hitboxProbabilities.a.s = 90
        /\ hitboxProbabilities.a.a = 5
        /\ ui'.touch.locationX = 18
        /\ ui'.touch.locationY = 10)
          => Types("s") /\ LogsChange]_vars

\* The touch of the scenario has been released on the two keys: s follows a
\* in the message, and the change from a to s is being logged.
C29_Witness ==
    /\ ui.keyPositions = ExampleKeys
    /\ ui.touch.locationX = 18
    /\ ui.touch.locationY = 10
    /\ ui.message = "as"
    /\ ui.lastLetterPressed = "s"
    /\ \E t \in TaskIds :
           /\ tasks[t].message = "changed_outcome"
           /\ tasks[t].data = Stringify(ChangedOutcome("a", "a", "s"))
    /\ \E t \in TaskIds : tasks[t].message = "Typed s"

\* This release reads what the release before it read.
SameInputs(before) ==
    /\ before.keyPositions = ui.keyPositions
    /\ before.gridWidth = ui.gridWidth
    /\ before.gridHeight = ui.gridHeight
    /\ before.locationX = ui'.touch.locationX
    /\ before.locationY = ui'.touch.locationY
    /\ before.lastLetter = ui.lastLetterPressed
    /\ before.dynamicHitboxEnabled = ui.dynamicHitboxEnabled

\* This release is seen to settle what the record r says.
Settles(r) ==
    /\ r.rejected <=> ~Accepts
    /\ ~r.rejected => Types(r.letter)
    /\ r.changed <=> LogsChange

Answered ==
    { t \in TaskIds : /\ tasks[t].op = "getLogsForSession"
                      /\ tasks[t].outcome = "returned" }

\* The entries of r run from the newest timestamp to the oldest.
NewestFirst(r) ==
    \A i \in DOMAIN r, j \in DOMAIN r : i < j => r[i].timestamp >= r[j].timestamp

\* The entries of r that bear one timestamp follow each other by rising id.
TiesByRisingId(r) ==
    \A i \in DOMAIN r, j \in DOMAIN r :
        (i < j /\ r[i].timestamp = r[j].timestamp) => r[i].id < r[j].id

\* The entries of r that bear one timestamp follow each other by falling id.
TiesByFallingId(r) ==
    \A i \in DOMAIN r, j \in DOMAIN r :
        (i < j /\ r[i].timestamp = r[j].timestamp) => r[i].id > r[j].id

\* The answer of call t holds exactly the rows now stored for its session.
AnswersStoredRows(t) ==
    { tasks[t].entries[i].id : i \in DOMAIN tasks[t].entries }
        = { rows[i].id : i \in { k \in DOMAIN rows :
                                   /\ rows[k].userId = tasks[t].userId
                                   /\ rows[k].sessionCode = tasks[t].sessionCode } }

\* C31: the answer of a session query runs newest timestamp first, entries of
\* one timestamp are ordered by id (the same way in every answer), and two
\* queries of one session over the same stored rows give the same sequence.
C31_TotalOrderNewestFirstThenId ==
    /\ \A t \in Answered : NewestFirst(tasks[t].entries)
    /\ \/ \A t \in Answered : TiesByRisingId(tasks[t].entries)
       \/ \A t \in Answered : TiesByFallingId(tasks[t].entries)
    /\ \A t1 \in Answered, t2 \in Answered :
           (/\ tasks[t1].userId = tasks[t2].userId
            /\ tasks[t1].sessionCode = tasks[t2].sessionCode
            /\ tasks[t1].limit = tasks[t2].limit
            /\ AnswersStoredRows(t1)
            /\ AnswersStoredRows(t2))
               => tasks[t1].entries = tasks[t2].entries

\* The letter a-z that ch is, in either case, or "" when ch is no letter.
LetterOf(ch) ==
    IF \E i \in DOMAIN LowerLetters : ch \in {LowerLetters[i], UpperLetters[i]}
    THEN LowerLetters[CHOOSE i \in DOMAIN LowerLetters :
                          ch \in {LowerLetters[i], UpperLetters[i]}]
    ELSE ""

\* This step takes the last character off the message, leaving rest \o ch.
Deletes(rest, ch) ==
    /\ ui'.message = rest \o ch
    /\ \E dropped \in Chars : ui.message = ui'.message \o dropped

\* C32: a key press that is accepted leaves its letter as the last letter;
\* the space bar and the number and symbol toggle leave none; a backspace
\* leaves the last character of the remaining text, in lower case, if that
\* is a letter, and none otherwise; an empty text has no last letter.
C32_LastLetterFollowsTheText ==
    /\ [](ui.currentView = "keyboard" /\ ui.message = "" => ui.lastLetterPressed = "")
    /\ [][/\ \A letter \in KeyLetters :
                Types(letter) => /\ ui'.message = ui.message \o letter
                                 /\ ui'.lastLetterPressed = letter
          /\ ui'.message = ui.message \o " " => ui'.lastLetterPressed = ""
          /\ ui'.currentView = "number_symbol" => ui'.lastLetterPressed = ""
          /\ \A rest \in StringsUpTo(MaxMessage - 2), ch \in Chars :
                Deletes(rest, ch) => ui'.lastLetterPressed = LetterOf(ch)
          /\ (ui.message # "" /\ ui'.message = "") => ui'.lastLetterPressed = ""]_vars

\* The suggestion Og was taken for editing and g has been deleted: the last
\* letter is o, in lower case, while the backspace is being logged.
C32_Witness ==
    /\ ui.currentView = "keyboard"
    /\ ui.message = "O"
    /\ ui.lastLetterPressed = "o"
    /\ \E t \in TaskIds :
           /\ tasks[t].message = "Backspace pressed"
           /\ tasks[t].data = Stringify(CurrentInput("Og"))

\* C33: once the grid has been resized, the keyboard holds the size and the
\* key rectangles of the new size and no others; after a resize to zero width
\* or zero height every release is rejected, also when keys had been measured
\* before.
C33_ResizeReplacesAndZeroRejects ==
    /\ [](ui.layout # <<>> /\ ui.layout[1] # 0 /\ ui.layout[2] # 0
            => /\ ui.gridWidth = ui.layout[1]
               /\ ui.gridHeight = ui.layout[2]
               /\ ui.keyPositions = ComputedPositions(ui.layout[1], ui.layout[2]))
    /\ [][(/\ Releases
           /\ ui.layout # <<>>
           /\ (ui.layout[1] = 0 \/ ui.layout[2] = 0))
              => /\ ~Accepts
                 /\ ui'.message = ui.message]_vars

\* The rows of rs that belong to the session.
RowsOf(rs, userId, sessionCode) ==
    SelectSeq(rs, LAMBDA r : r.userId = userId /\ r.sessionCode = sessionCode)

\* The rows of rs that belong to any other session.
RowsOfOthers(rs, userId, sessionCode) ==
    SelectSeq(rs, LAMBDA r : ~(r.userId = userId /\ r.sessionCode = sessionCode))

\* Call t runs its INSERT or its DELETE in this step.
Writes(t) ==
    /\ tasks[t].pc \in {"log_insert", "svc_delete"}
    /\ tasks'[t].pc # tasks[t].pc

\* The session call t works on: that of its logger, or the one it was given.
SessionOf(t) ==
    IF tasks[t].op = "log"
    THEN <<handles[tasks[t].h].userId, handles[tasks[t].h].sessionCode>>
    ELSE <<tasks[t].userId, tasks[t].sessionCode>>

\* C34: a stored row never changes; the rows change only when a row with a
\* new id is appended by log, or when deleteLogsForSession removes exactly
\* the rows of its session; whatever an operation on one session does, the
\* rows of every other session stay as they are, in their order.
C34_AppendOnlyPerSession ==
    [][/\ \A i \in DOMAIN rows, j \in DOMAIN rows' :
              rows'[j].id = rows[i].id => rows'[j] = rows[i]
       /\ rows' # rows =>
              \E t \in TaskIds :
                  /\ Writes(t)
                  /\ \/ /\ tasks[t].op = "log"
                        /\ Len(rows') = Len(rows) + 1
                        /\ SubSeq(rows', 1, Len(rows)) = rows
                        /\ \A i \in DOMAIN rows : rows[i].id # rows'[Len(rows')].id
                        /\ <<rows'[Len(rows')].userId, rows'[Len(rows')].sessionCode>>
                               = SessionOf(t)
                     \/ /\ tasks[t].op = "deleteLogsForSession"
                        /\ rows' = RowsOfOthers(rows, tasks[t].userId, tasks[t].sessionCode)
       /\ \A t \in TaskIds :
              tasks'[t] # tasks[t] =>
                  RowsOfOthers(rows', SessionOf(t)[1], SessionOf(t)[2])
                      = RowsOfOthers(rows, SessionOf(t)[1], SessionOf(t)[2])]_vars

\* The rows of session (a-b, c) have been written and deleted again, and the
\* delete has answered true, while the row of session (a, c) is still stored
\* as it was.
C34_Witness ==
    /\ rows = <<OldRow>>
    /\ nextId > 2
    /\ \E t \in TaskIds :
           /\ tasks[t].op = "deleteLogsForSession"
           /\ tasks[t].userId = "a-b"
           /\ tasks[t].sessionCode = "c"
           /\ tasks[t].pc = "done"
           /\ tasks[t].ok

\* C35: a logger that is initialized holds a connection: in every reachable
\* state isInitialized implies that db is not null, whatever calls of
\* initialize, log, getLogs and close are in flight on the logger.
C35_InitializedHoldsConnection ==
    \A h \in DOMAIN handles : handles[h].isInitialized => handles[h].db # 0

----------------------------------------------------------------------------
\* C36: in every reachable state the current logger is either none or a
\* logger that the registry map holds at that moment.
C36_CurrentIsRegistered ==
    currentLogger = 0 \/ \E k \in DOMAIN loggers : loggers[k] = currentLogger

\* Call t is a deleteLogsForSession call that takes a step.
DeleteSteps(t) ==
    /\ tasks[t].op = "deleteLogsForSession"
    /\ tasks'[t] # tasks[t]

\* Logger h was opened for another session than the one call t names.
OfOtherSession(h, t) ==
    \/ handles[h].userId # tasks[t].userId
    \/ handles[h].sessionCode # tasks[t].sessionCode

\* C37: no step of deleteLogsForSession(s) closes a logger opened for a
\* session other than s, takes it out of the registry, or clears it as the
\* current logger, whatever the identifiers are ("-" included).
C37_DeleteLeavesOtherSessions ==
    [][\A t \in TaskIds : DeleteSteps(t) =>
          \A h \in DOMAIN handles : OfOtherSession(h, t) =>
              /\ handles'[h].db = handles[h].db
              /\ handles'[h].isInitialized = handles[h].isInitialized
              /\ (handles[h].db # 0 /\ conns[handles[h].db]) => conns'[handles[h].db]
              /\ (\E k \in DOMAIN loggers : loggers[k] = h)
                     => (\E k \in DOMAIN loggers' : loggers'[k] = h)
              /\ currentLogger = h => currentLogger' = h]_vars

\* An export has handed the copy to shareAsync, which has not settled.
Sharing == { t \in TaskIds : tasks[t].op = "exportDatabaseFile" /\ tasks[t].pc = "exp_share" }

\* C38: the copy in the export directory is not deleted while an export that
\* handed it to shareAsync still awaits that call; the cleanup timer set by
\* an earlier export never deletes the copy a later export is sharing.
C38_CopyOutlivesItsShare ==
    [][(scratch.copy /\ ~scratch'.copy) => Sharing = {}]_vars

====
